---------------------------- MODULE Spec2Model ----------------------------
(***************************************************************************)
(* A model of the game-theory simulation of mcpseud/coop_evolution_LLMs:  *)
(* the Agent (agent_class.py), the GameManager (game_manager.py), the      *)
(* ScenarioManager (scenarios_manager.py) and the SimulationEngine         *)
(* (simulation_engine.py).                                                 *)
(*                                                                         *)
(* Texts are TLA+ strings handled as Python handles str: Len, SubSeq and   *)
(* \o are the only primitives used on them.                                *)
(***************************************************************************)
EXTENDS Integers, Sequences, FiniteSets, TLC

(***************************************************************************)
(* Bounds of the model.                                                    *)
(***************************************************************************)
\* the longest provider answer to a move decision, in fragments
MaxWords == 2

(***************************************************************************)
(* Python str operations.                                                  *)
(***************************************************************************)
Upper == "ABCDEFGHIJKLMNOPQRSTUVWXYZ"
Lowercase == "abcdefghijklmnopqrstuvwxyz"

UpperChars == {SubSeq(Upper, i, i) : i \in 1..Len(Upper)}

\* the lower-case letter of each upper-case letter
LowerOf ==
    [c \in UpperChars |->
        LET i == CHOOSE j \in 1..Len(Upper) : SubSeq(Upper, j, j) = c
        IN  SubSeq(Lowercase, i, i)]

\* str.lower() of one character
LowerChar(c) == IF c \in UpperChars THEN LowerOf[c] ELSE c

RECURSIVE LowerFrom(_, _)
\* s with its characters from the i-th on in lower case
LowerFrom(s, i) ==
    IF i > Len(s) THEN s
    ELSE IF SubSeq(s, i, i) \in UpperChars
    THEN LowerFrom(SubSeq(s, 1, i - 1) \o LowerOf[SubSeq(s, i, i)] \o SubSeq(s, i + 1, Len(s)),
                   i + 1)
    ELSE LowerFrom(s, i + 1)

\* str.lower()
Lower(s) == LowerFrom(s, 1)

IsSpace(c) == c \in {" ", "\t", "\n", "\r"}

RECURSIVE Strip(_)
\* str.strip(): leading and trailing whitespace removed
Strip(s) ==
    IF Len(s) = 0 THEN ""
    ELSE IF IsSpace(SubSeq(s, 1, 1)) THEN Strip(SubSeq(s, 2, Len(s)))
    ELSE IF IsSpace(SubSeq(s, Len(s), Len(s))) THEN Strip(SubSeq(s, 1, Len(s) - 1))
    ELSE s

\* Python's `t in s` on two str
Contains(s, t) ==
    \E i \in 1..(Len(s) - Len(t) + 1) : SubSeq(s, i, i + Len(t) - 1) = t

\* any(word in s for word in words)
AnyIn(words, s) == \E w \in words : Contains(s, w)

\* s[:n] for n >= 0
Prefix(s, n) == IF Len(s) > n THEN SubSeq(s, 1, n) ELSE s

\* the first element of a non-empty sequence that satisfies Test, by index
FirstIndex(n, Test(_)) == CHOOSE i \in 1..n : Test(i) /\ \A j \in 1..(i - 1) : ~Test(j)

(***************************************************************************)
(* GameManager: the payoff matrices and the payoff calculation.            *)
(***************************************************************************)
GameTypes == {"prisoners_dilemma", "stag_hunt", "hawk_dove", "coordination"}

\* GameManager.valid_moves: the canonical moves, in the declared order
valid_moves ==
    [g \in GameTypes |->
        CASE g = "prisoners_dilemma" -> <<"cooperate", "defect">>
          [] g = "stag_hunt"         -> <<"stag", "hare">>
          [] g = "hawk_dove"         -> <<"hawk", "dove">>
          [] g = "coordination"      -> <<"option_a", "option_b">>]

ValidMoveSet(g) == {valid_moves[g][i] : i \in 1..Len(valid_moves[g])}

\* a table with one entry mistyped: (cooperate, defect) pays as (defect, cooperate)
payoff_matrices_asym(g) ==
    CASE g = "prisoners_dilemma" ->
           (<<"cooperate", "cooperate">> :> <<3, 3>>) @@
           (<<"cooperate", "defect">>    :> <<5, 0>>) @@
           (<<"defect", "cooperate">>    :> <<5, 0>>) @@
           (<<"defect", "defect">>       :> <<1, 1>>)
      [] g = "stag_hunt" ->
           (<<"stag", "stag">> :> <<4, 4>>) @@
           (<<"stag", "hare">> :> <<0, 3>>) @@
           (<<"hare", "stag">> :> <<0, 3>>) @@
           (<<"hare", "hare">> :> <<2, 2>>)
      [] g = "hawk_dove" ->
           (<<"hawk", "hawk">> :> <<-1, -1>>) @@
           (<<"hawk", "dove">> :> <<3, 1>>) @@
           (<<"dove", "hawk">> :> <<3, 1>>) @@
           (<<"dove", "dove">> :> <<2, 2>>)
      [] g = "coordination" ->
           (<<"option_a", "option_a">> :> <<3, 3>>) @@
           (<<"option_a", "option_b">> :> <<0, 0>>) @@
           (<<"option_b", "option_a">> :> <<0, 0>>) @@
           (<<"option_b", "option_b">> :> <<3, 3>>)

\* GameManager.payoff_matrices: {(move1, move2): (payoff1, payoff2)}
payoff_matrices(g) ==
    CASE g = "prisoners_dilemma" ->
           (<<"cooperate", "cooperate">> :> <<3, 3>>) @@
           (<<"cooperate", "defect">>    :> <<0, 5>>) @@
           (<<"defect", "cooperate">>    :> <<5, 0>>) @@
           (<<"defect", "defect">>       :> <<1, 1>>)
      [] g = "stag_hunt" ->
           (<<"stag", "stag">> :> <<4, 4>>) @@
           (<<"stag", "hare">> :> <<0, 3>>) @@
           (<<"hare", "stag">> :> <<3, 0>>) @@
           (<<"hare", "hare">> :> <<2, 2>>)
      [] g = "hawk_dove" ->
           (<<"hawk", "hawk">> :> <<-1, -1>>) @@
           (<<"hawk", "dove">> :> <<3, 1>>) @@
           (<<"dove", "hawk">> :> <<1, 3>>) @@
           (<<"dove", "dove">> :> <<2, 2>>)
      [] g = "coordination" ->
           (<<"option_a", "option_a">> :> <<3, 3>>) @@
           (<<"option_a", "option_b">> :> <<0, 0>>) @@
           (<<"option_b", "option_a">> :> <<0, 0>>) @@
           (<<"option_b", "option_b">> :> <<3, 3>>)

\* an invalid move handed back as it came
map_to_valid_move_asis(move, game_type) == move

\* GameManager._map_to_valid_move
map_to_valid_move(move, game_type) ==
    LET move_lower == Lower(move) IN
    CASE game_type = "prisoners_dilemma" /\ AnyIn({"trust", "collaborate", "share"}, move_lower)
           -> "cooperate"
      [] game_type = "prisoners_dilemma" /\ ~AnyIn({"trust", "collaborate", "share"}, move_lower)
           /\ AnyIn({"betray", "compete", "take"}, move_lower)
           -> "defect"
      [] game_type = "stag_hunt" /\ AnyIn({"team", "together", "big"}, move_lower)
           -> "stag"
      [] game_type = "stag_hunt" /\ ~AnyIn({"team", "together", "big"}, move_lower)
           /\ AnyIn({"solo", "safe", "small"}, move_lower)
           -> "hare"
      [] game_type = "hawk_dove" /\ AnyIn({"fight", "aggressive", "attack"}, move_lower)
           -> "hawk"
      [] game_type = "hawk_dove" /\ ~AnyIn({"fight", "aggressive", "attack"}, move_lower)
           /\ AnyIn({"peace", "yield", "share"}, move_lower)
           -> "dove"
      [] game_type = "coordination" /\ AnyIn({"a", "first"}, move_lower)
           -> "option_a"
      [] game_type = "coordination" /\ ~AnyIn({"a", "first"}, move_lower)
           /\ AnyIn({"b", "second"}, move_lower)
           -> "option_b"
      [] OTHER -> valid_moves[game_type][1]

\* the table looked up with the two moves in the wrong order
LookupPayoffs_swapped(g, m1, m2) ==
    IF <<m2, m1>> \in DOMAIN payoff_matrices(g)
    THEN payoff_matrices(g)[<<m2, m1>>]
    ELSE <<0, 0>>

\* the payoff pair looked up in the table of game type g
LookupPayoffs(g, m1, m2) ==
    IF <<m1, m2>> \in DOMAIN payoff_matrices(g)
    THEN payoff_matrices(g)[<<m1, m2>>]
    ELSE <<0, 0>>

\* calculate_payoffs: a move normalized and validated, the move the table is
\* looked up with
ValidatedMove(move, game_type) ==
    LET n == Strip(Lower(move))
    IN  IF n \in ValidMoveSet(game_type) THEN n ELSE map_to_valid_move(n, game_type)

\* GameManager.calculate_payoffs, for a game type of the closed set
calculate_payoffs(game_type, move1, move2) ==
    LookupPayoffs(game_type, ValidatedMove(move1, game_type), ValidatedMove(move2, game_type))

\* GameManager.get_equilibria: the list of the game type, [] for another
get_equilibria(game_type) ==
    CASE game_type = "prisoners_dilemma" -> << <<"defect", "defect">> >>
      [] game_type = "stag_hunt"         -> << <<"stag", "stag">>, <<"hare", "hare">> >>
      [] game_type = "hawk_dove"         -> << >>
      [] game_type = "coordination"      -> << <<"option_a", "option_a">>, <<"option_b", "option_b">> >>
      [] OTHER                           -> << >>

\* the test of is_pareto_optimal looking at the first player's payoff only
Improves_first(other_payoffs, current_payoffs) == other_payoffs[1] > current_payoffs[1]

\* is_pareto_optimal: another outcome is better for both players
Improves(other_payoffs, current_payoffs) ==
    other_payoffs[1] > current_payoffs[1] /\ other_payoffs[2] > current_payoffs[2]

\* GameManager.is_pareto_optimal: False at the first other outcome of the two
\* loops over valid_moves that improves on the current one, True after them
is_pareto_optimal(game_type, move1, move2) ==
    LET current_payoffs == calculate_payoffs(game_type, move1, move2)
    IN  ~ \E i \in 1..2, j \in 1..2 :
            LET m1 == valid_moves[game_type][i]
                m2 == valid_moves[game_type][j]
            IN  /\ <<m1, m2>> # <<move1, move2>>
                /\ Improves(calculate_payoffs(game_type, m1, m2), current_payoffs)

(***************************************************************************)
(* ScenarioManager: the catalog.  A scenario is its name, its option       *)
(* labels and its move_mapping, a dict kept as the sequence of its         *)
(* (label, canonical move) items in insertion order.                       *)
(***************************************************************************)
Scn(name, label1, move1, label2, move2) ==
    [name |-> name,
     options |-> <<label1, label2>>,
     move_mapping |-> << <<label1, move1>>, <<label2, move2>> >>]

\* ScenarioManager.scenarios
scenarios ==
    [g \in GameTypes |->
        CASE g = "prisoners_dilemma" ->
               << Scn("Price Competition", "maintain prices", "cooperate", "cut prices", "defect"),
                  Scn("R&D Information Sharing", "share research", "cooperate", "keep secret", "defect"),
                  Scn("Supplier Contract Negotiation", "fair terms", "cooperate", "exclusive terms", "defect") >>
          [] g = "stag_hunt" ->
               << Scn("Joint Venture Investment", "joint venture", "stag", "independent project", "hare"),
                  Scn("Industry Standard Development", "develop standard together", "stag", "proprietary solution", "hare"),
                  Scn("Market Expansion Strategy", "international partnership", "stag", "domestic expansion", "hare") >>
          [] g = "hawk_dove" ->
               << Scn("Patent Dispute", "aggressive litigation", "hawk", "seek agreement", "dove"),
                  Scn("Market Territory Conflict", "aggressive expansion", "hawk", "seek alternatives", "dove"),
                  Scn("Talent Acquisition Battle", "aggressive offer", "hawk", "reasonable offer", "dove") >>
          [] g = "coordination" ->
               << Scn("Technology Platform Choice", "Platform A", "option_a", "Platform B", "option_b"),
                  Scn("Meeting Scheduling System", "System Alpha", "option_a", "System Beta", "option_b"),
                  Scn("Trade Show Participation", "Spring Expo", "option_a", "Fall Summit", "option_b") >>]

\* ScenarioManager.get_scenario: the i-th catalog scenario of a game type, with
\* the game type included
get_scenario(game_type, i) ==
    [game_type |-> game_type,
     name |-> scenarios[game_type][i].name,
     options |-> scenarios[game_type][i].options,
     move_mapping |-> scenarios[game_type][i].move_mapping]

(***************************************************************************)
(* Agent._extract_move.  move_mapping is a sequence of (label, move)       *)
(* items; the empty sequence stands for None (and for an empty dict).      *)
(***************************************************************************)
CoopKeywords(game_type) ==
    CASE game_type = "prisoners_dilemma" -> {"cooperate", "collaborate", "trust", "share"}
      [] game_type = "stag_hunt"         -> {"stag", "collaborate", "team", "together", "big"}
      [] game_type = "hawk_dove"         -> {"dove", "peaceful", "yield", "peace"}
      [] game_type = "coordination"      -> {"option a", "a", "first"}
      [] OTHER                           -> {}

CompKeywords(game_type) ==
    CASE game_type = "prisoners_dilemma" -> {"defect", "betray", "compete", "take"}
      [] game_type = "stag_hunt"         -> {"hare", "solo", "individual", "safe", "small"}
      [] game_type = "hawk_dove"         -> {"hawk", "aggressive", "fight", "attack"}
      [] game_type = "coordination"      -> {"option b", "b", "second"}
      [] OTHER                           -> {}

\* the keyword set tested by the `if` of a game type's branch, and its move
FirstKeywords(game_type) ==
    IF game_type = "hawk_dove" THEN CompKeywords(game_type) ELSE CoopKeywords(game_type)
FirstKeywordMove(game_type) ==
    CASE game_type = "prisoners_dilemma" -> "cooperate"
      [] game_type = "stag_hunt"         -> "stag"
      [] game_type = "hawk_dove"         -> "hawk"
      [] game_type = "coordination"      -> "option_a"
      [] OTHER                           -> "cooperate"

\* the keyword set tested by the `elif` of a game type's branch, and its move
SecondKeywords(game_type) ==
    IF game_type = "hawk_dove" THEN CoopKeywords(game_type) ELSE CompKeywords(game_type)
SecondKeywordMove(game_type) ==
    CASE game_type = "prisoners_dilemma" -> "defect"
      [] game_type = "stag_hunt"         -> "hare"
      [] game_type = "hawk_dove"         -> "dove"
      [] game_type = "coordination"      -> "option_b"
      [] OTHER                           -> "cooperate"

\* valid_defaults.get(game_type, 'cooperate')
valid_defaults(game_type) ==
    CASE game_type = "prisoners_dilemma" -> "cooperate"
      [] game_type = "stag_hunt"         -> "stag"
      [] game_type = "hawk_dove"         -> "dove"
      [] game_type = "coordination"      -> "option_a"
      [] OTHER                           -> "cooperate"

\* the fallback returning the provider's words when no keyword matches
KeywordMove_raw(response_lower, game_type) ==
    IF AnyIn(FirstKeywords(game_type), response_lower) THEN FirstKeywordMove(game_type)
    ELSE IF AnyIn(SecondKeywords(game_type), response_lower) THEN SecondKeywordMove(game_type)
    ELSE response_lower

\* the keyword fallback and the default of _extract_move
KeywordMove(response_lower, game_type) ==
    IF AnyIn(FirstKeywords(game_type), response_lower) THEN FirstKeywordMove(game_type)
    ELSE IF AnyIn(SecondKeywords(game_type), response_lower) THEN SecondKeywordMove(game_type)
    ELSE valid_defaults(game_type)

\* the extraction with the keywords tried before the scenario's labels
extract_move_keywords_first(response, game_type, move_mapping) ==
    LET response_lower == Strip(Lower(response))
        Hit(i) == Contains(response_lower, Lower(move_mapping[i][1]))
    IN  IF AnyIn(FirstKeywords(game_type) \cup SecondKeywords(game_type), response_lower)
        THEN KeywordMove(response_lower, game_type)
        ELSE IF \E i \in 1..Len(move_mapping) : Hit(i)
        THEN move_mapping[FirstIndex(Len(move_mapping), Hit)][2]
        ELSE valid_defaults(game_type)

\* Agent._extract_move
extract_move(response, game_type, move_mapping) ==
    LET response_lower == Strip(Lower(response))
        Hit(i) == Contains(response_lower, Lower(move_mapping[i][1]))
    IN  IF \E i \in 1..Len(move_mapping) : Hit(i)
        THEN move_mapping[FirstIndex(Len(move_mapping), Hit)][2]
        ELSE KeywordMove(response_lower, game_type)

(***************************************************************************)
(* Optional values (None or a value) are sequences of length 0 or 1;       *)
(* dicts are functions, extended by Put.                                   *)
(***************************************************************************)
None == <<>>
Some(v) == <<v>>

\* d[k] = v on a dict
Put(d, k, v) == [x \in (DOMAIN d) \cup {k} |-> IF x = k THEN v ELSE d[x]]

\* d.get(k), None when absent
Get(d, k) == IF k \in DOMAIN d THEN Some(d[k]) ELSE None

\* d[k] += n on a defaultdict(int)
Add(d, k, n) == Put(d, k, (IF k \in DOMAIN d THEN d[k] ELSE 0) + n)

EmptyDict == <<>>

Max(a, b) == IF a >= b THEN a ELSE b

(***************************************************************************)
(* The Decision Provider and Agent._call_llm.                              *)
(*                                                                         *)
(* What the provider does on one call is an outcome: it fails (any         *)
(* exception of the request, or of the parsing of its answer), or it       *)
(* answers a text, given as the regex of _call_llm splits it: the first    *)
(* <thinking> block (None without one) and the text outside the blocks.    *)
(***************************************************************************)
CallTypes == {"communication", "move_decision", "memory_update",
              "gossip_generation", "gossip_processing"}

Failure == [failed |-> TRUE, thinking |-> None, visible |-> ""]
Answer(thinking, visible) == [failed |-> FALSE, thinking |-> thinking, visible |-> visible]

\* the texts of the provider other than move decisions: empty, short, exactly
\* the threshold of receive_gossip, and longer than every memory limit used
ShortText == "ok"
TenChars == "0123456789"
LongText == "plays fair, keeps promises"

\* the outcomes of one provider call of the given type in a scenario
Outcomes(call_type, scenario) ==
    CASE call_type = "move_decision" ->
           {Failure,
            Answer(None, scenario.options[1]),
            Answer(None, scenario.options[2]),
            Answer(Some(scenario.options[2]), ""),
            Answer(None, "")}
      [] call_type = "communication" ->
           {Failure, Answer(None, LongText)}
      [] call_type = "memory_update" ->
           {Failure, Answer(None, ShortText), Answer(None, LongText)}
      [] call_type = "gossip_generation" ->
           {Failure, Answer(None, LongText)}
      [] call_type = "gossip_processing" ->
           {Failure, Answer(None, TenChars), Answer(None, LongText)}

\* the `except Exception` of _call_llm with the exception let through
LiveCall_nocatch(call_type, outcome) ==
    IF outcome.failed
    THEN [thinking |-> None, response |-> "", raised |-> TRUE]
    ELSE LET clean == Strip(outcome.visible)
         IN  [thinking |-> outcome.thinking,
              response |-> IF clean = "" /\ outcome.thinking # None /\ outcome.thinking[1] # ""
                           THEN Strip(outcome.thinking[1]) ELSE clean,
              raised |-> FALSE]

\* the request to the provider and the parsing of its answer: (thinking,
\* response), and whether an exception leaves the method (the
\* `except Exception` lets none)
LiveCall(call_type, outcome) ==
    IF outcome.failed
    THEN [thinking |-> None,
          response |-> IF call_type = "move_decision" THEN "cooperate" ELSE "",
          raised |-> FALSE]
    ELSE LET clean == Strip(outcome.visible)
         IN  [thinking |-> outcome.thinking,
              response |-> IF clean = "" /\ outcome.thinking # None /\ outcome.thinking[1] # ""
                           THEN Strip(outcome.thinking[1]) ELSE clean,
              raised |-> FALSE]

\* dry-run mode answering a move decision with "hawk"
DryRunResponse_hawk(call_type) ==
    IF call_type = "move_decision" THEN "hawk"
    ELSE "[Dry run response for " \o call_type \o "]"

\* dry-run mode answering a move decision with the competitive move
DryRunResponse_defect(call_type) ==
    IF call_type = "move_decision" THEN "defect"
    ELSE "[Dry run response for " \o call_type \o "]"

\* the fixed answers of dry-run mode
DryRunResponse(call_type) ==
    IF call_type = "move_decision" THEN "cooperate"
    ELSE "[Dry run response for " \o call_type \o "]"

\* Agent._call_llm without its counter
call_llm(dry_run, call_type, outcome) ==
    IF dry_run
    THEN [thinking |-> None, response |-> DryRunResponse(call_type), raised |-> FALSE]
    ELSE LiveCall(call_type, outcome)

\* the cap on a memory text left out
Truncate_off(response, memory_limit) == response

\* `if len(response) > self.memory_limit: response = response[:self.memory_limit]`
Truncate(response, memory_limit) ==
    IF Len(response) > memory_limit THEN Prefix(response, memory_limit) ELSE response

\* the minimal-content threshold of receive_gossip
MinGossipLen == 10

\* a response of exactly the threshold length stored too
receive_gossip_lenient(mem, about_agent, response, memory_limit) ==
    IF response # "" /\ Len(response) >= MinGossipLen
    THEN Put(mem, about_agent, Truncate(response, memory_limit))
    ELSE mem

\* Agent.receive_gossip: the receiver's memories after the provider's response
receive_gossip(mem, about_agent, response, memory_limit) ==
    IF response # "" /\ Len(response) > MinGossipLen
    THEN Put(mem, about_agent, Truncate(response, memory_limit))
    ELSE mem

\* an empty response not stored
update_memory_after_pairing_nonempty(mem, opponent_id, response, memory_limit) ==
    IF response = "" THEN mem ELSE Put(mem, opponent_id, Truncate(response, memory_limit))

\* the response dropped instead of stored
update_memory_after_pairing_skip(mem, opponent_id, response, memory_limit) == mem

\* Agent.update_memory_after_pairing: the agent's memories after the response
update_memory_after_pairing(mem, opponent_id, response, memory_limit) ==
    Put(mem, opponent_id, Truncate(response, memory_limit))

(***************************************************************************)
(* The inputs the pure operations are applied to.                          *)
(***************************************************************************)
\* one-fragment answers to a move decision: every keyword and every catalog
\* label of the game type, and other words
Words(g) ==
    CoopKeywords(g) \cup CompKeywords(g)
    \cup {scenarios[g][i].options[k] : i \in 1..Len(scenarios[g]), k \in 1..2}
    \cup {"", "I will", "Mistake", "Hare", "Option B"}

\* what a longer answer is put together from: a keyword of each kind, the two
\* labels of the first catalog scenario, and other words
Fragments(g) ==
    {valid_moves[g][1], valid_moves[g][2],
     scenarios[g][1].options[1], scenarios[g][1].options[2], " ", "x", "DEFECT"}

RECURSIVE Phrases(_, _)
\* the texts of at most n fragments
Phrases(g, n) ==
    IF n = 0 THEN {""}
    ELSE LET shorter == Phrases(g, n - 1)
         IN  shorter \cup {t \o f : t \in shorter, f \in Fragments(g)}

\* the provider answers to a move decision
Texts(g, n) == Words(g) \cup Phrases(g, n)

\* the move_mapping arguments: none, or that of a catalog scenario of the type
Mappings(g) == {<<>>} \cup {scenarios[g][i].move_mapping : i \in 1..Len(scenarios[g])}

\* the move arguments of calculate_payoffs: canonical or not
MoveTexts(g) ==
    ValidMoveSet(g)
    \cup {" Defect ", "HARE", "Dove\n", "Option_B", "option b", "b", "a",
          "trust", "take", "together", "safe", "attack", "peace", "share",
          "first", "second", "", "zzz"}

NoRet == [op |-> "none"]

ParetoCalls ==
    UNION {{[op |-> "is_pareto_optimal", game_type |-> g, move1 |-> m1, move2 |-> m2] :
                m1 \in ValidMoveSet(g), m2 \in ValidMoveSet(g)} : g \in GameTypes}

EquilibriaCalls == {[op |-> "get_equilibria", game_type |-> g] : g \in GameTypes \cup {"chicken"}}

ExtractCalls ==
    UNION {{[op |-> "extract_move", response |-> r, game_type |-> g, move_mapping |-> m] :
                r \in Texts(g, MaxWords), m \in Mappings(g)} : g \in GameTypes}

PayoffCalls ==
    UNION {{[op |-> "calculate_payoffs", game_type |-> g, move1 |-> m1, move2 |-> m2] :
                m1 \in MoveTexts(g), m2 \in MoveTexts(g)} : g \in GameTypes}

(***************************************************************************)
(* Agent._build_move_prompt, as the parts the prompt is joined from.       *)
(* context['history'] is the pairing's history list itself.                *)
(***************************************************************************)
\* history[-3:] if len(history) > 3 else history
Recent(history) ==
    IF Len(history) > 3 THEN SubSeq(history, Len(history) - 2, Len(history)) ELSE history

\* the parts of the prompt that depend on the arguments: the two ids, the
\* scenario, the transcript, the number of rounds played and the recent rounds
build_move_prompt(agent_id, context, msgs) ==
    [agent_id |-> agent_id,
     opponent_id |-> context.opponent_id,
     scenario |-> context.scenario.name,
     options |-> context.scenario.options,
     communication |-> msgs,
     played |-> Len(context.history),
     recent |-> [i \in 1..Len(Recent(context.history)) |->
                    [round |-> Recent(context.history)[i].round,
                     you |-> Get(Recent(context.history)[i].moves, agent_id),
                     they |-> Get(Recent(context.history)[i].moves, context.opponent_id)]]]

\* the communication prompt without the conversation so far
build_communication_prompt_deaf(agent_id, context, previous_messages) ==
    [agent_id |-> agent_id,
     opponent_id |-> context.opponent_id,
     scenario |-> context.scenario.name,
     memory |-> IF context.memory # None /\ context.memory[1] # ""
                THEN context.memory ELSE None,
     played |-> Len(context.history),
     conversation |-> <<>>]

\* Agent._build_communication_prompt, as the parts that depend on the
\* arguments: the two ids, the scenario, the memory when there is a non-empty
\* one, the number of rounds played, and the conversation so far
build_communication_prompt(agent_id, context, previous_messages) ==
    [agent_id |-> agent_id,
     opponent_id |-> context.opponent_id,
     scenario |-> context.scenario.name,
     memory |-> IF context.memory # None /\ context.memory[1] # ""
                THEN context.memory ELSE None,
     played |-> Len(context.history),
     conversation |-> previous_messages]

\* the line of the memory-update prompt for one round of the history
RoundSummary(agent_id, opponent_id, round_data) ==
    [round |-> round_data.round,
     game_type |-> round_data.game_type,
     you |-> Get(round_data.moves, agent_id),
     they |-> Get(round_data.moves, opponent_id),
     payoff |-> Get(round_data.payoffs, agent_id)]

\* the memory-update prompt summing up the last round only
build_memory_update_prompt_last(agent_id, opponent_id, history, mem) ==
    [agent_id |-> agent_id,
     opponent_id |-> opponent_id,
     total_rounds |-> Len(history),
     rounds |-> IF history = <<>> THEN <<>>
                ELSE <<RoundSummary(agent_id, opponent_id, history[Len(history)])>>,
     previous |-> Get(mem, opponent_id)]

\* Agent._build_memory_update_prompt, as the parts that depend on the
\* arguments: the ids, the number of rounds, a line per round of the history,
\* and the memory held about the opponent, if any
build_memory_update_prompt(agent_id, opponent_id, history, mem) ==
    [agent_id |-> agent_id,
     opponent_id |-> opponent_id,
     total_rounds |-> Len(history),
     rounds |-> [i \in 1..Len(history) |-> RoundSummary(agent_id, opponent_id, history[i])],
     previous |-> Get(mem, opponent_id)]

(***************************************************************************)
(* SimulationEngine: the pure parts of _run_pairing, _select_game_type,    *)
(* _update_stats and run.                                                  *)
(***************************************************************************)
\* the round count with the floor of the Poisson draw left out
NumRounds_nofloor(rounds_fixed, avg_rounds, poisson) ==
    IF rounds_fixed THEN avg_rounds ELSE poisson

\* num_rounds of _run_pairing, poisson being what np.random.poisson returned
NumRounds(rounds_fixed, avg_rounds, poisson) ==
    IF rounds_fixed THEN avg_rounds ELSE Max(1, poisson)

\* list(game_props.keys()): the game types in the order of the configuration
GameOrder == <<"prisoners_dilemma", "stag_hunt", "hawk_dove", "coordination">>

RECURSIVE CumWeight(_, _)
\* itertools.accumulate(weights), up to the i-th game type
CumWeight(game_proportions, i) ==
    IF i = 0 THEN 0 ELSE CumWeight(game_proportions, i - 1) + game_proportions[GameOrder[i]]

\* bisect(cum_weights, x, 0, hi): the number of the first hi entries that are
\* at most x
Bisect(cum_weights, x, hi) == Cardinality({i \in 1..hi : cum_weights[i] <= x})

\* a draw that takes no account of the weights
select_game_type_uniform(game_proportions) == {GameOrder[i] : i \in 1..Len(GameOrder)}

\* what random.choices(games, weights=weights)[0] can return: the game type
\* at bisect(cum_weights, random() * total, 0, n - 1), random() * total falling
\* in one of the unit intervals [x, x + 1) below total
select_game_type(game_proportions) ==
    LET n == Len(GameOrder)
        cum_weights == [i \in 1..n |-> CumWeight(game_proportions, i)]
        total == cum_weights[n]
    IN  {GameOrder[Bisect(cum_weights, x, n - 1) + 1] : x \in 0..(total - 1)}

\* the test of game_varies_across_pairings inverted
GamesForRounds_inverted(varies, game_proportions, n) ==
    IF ~varies
    THEN {[i \in 1..n |-> g] : g \in select_game_type(game_proportions)}
    ELSE [1..n -> select_game_type(game_proportions)]

\* the values games_for_rounds can take for n rounds
GamesForRounds(varies, game_proportions, n) ==
    IF varies
    THEN {[i \in 1..n |-> g] : g \in select_game_type(game_proportions)}
    ELSE [1..n -> select_game_type(game_proportions)]

\* cooperative_moves.get(game_type, ['cooperate'])
cooperative_moves(game_type) ==
    CASE game_type = "prisoners_dilemma" -> {"cooperate"}
      [] game_type = "stag_hunt"         -> {"stag"}
      [] game_type = "hawk_dove"         -> {"dove"}
      [] game_type = "coordination"      -> {"option_a", "option_b"}
      [] OTHER                           -> {"cooperate"}

\* the number of moves of the sequence that are in the cooperative set
CountCoop(game_type, moves) ==
    Cardinality({i \in 1..Len(moves) : Lower(moves[i]) \in cooperative_moves(game_type)})

\* the second metric counting a coordination round move by move
update_stats_permove(st, game_type, move1, move2) ==
    LET coop == CountCoop(game_type, <<move1, move2>>)
    IN  [st EXCEPT
            !.moves_by_game = Add(@, <<game_type, move1 \o "-" \o move2>>, 1),
            !.cooperation_count = @ + coop,
            !.defection_count = @ + (2 - coop),
            !.coop_ewan_count = @ + coop,
            !.defection_ewan_count = @ + (2 - coop)]

\* the counters fed with the first move of the round only
update_stats_first(st, game_type, move1, move2) ==
    LET coop == CountCoop(game_type, <<move1>>)
    IN  [st EXCEPT
            !.moves_by_game = Add(@, <<game_type, move1 \o "-" \o move2>>, 1),
            !.cooperation_count = @ + coop,
            !.defection_count = @ + (1 - coop),
            !.coop_ewan_count = @ + coop,
            !.defection_ewan_count = @ + (1 - coop)]

\* SimulationEngine._update_stats
update_stats(st, game_type, move1, move2) ==
    LET coop == CountCoop(game_type, <<move1, move2>>)
        same == Lower(move1) = Lower(move2)
    IN  [st EXCEPT
            !.moves_by_game = Add(@, <<game_type, move1 \o "-" \o move2>>, 1),
            !.cooperation_count = @ + coop,
            !.defection_count = @ + (2 - coop),
            !.coop_ewan_count =
                @ + (IF game_type = "coordination" THEN (IF same THEN 2 ELSE 0) ELSE coop),
            !.defection_ewan_count =
                @ + (IF game_type = "coordination" THEN (IF same THEN 0 ELSE 2) ELSE 2 - coop)]

\* n / total if total > 0 else 0, as the fraction <<numerator, denominator>>
Rate(n, total) == IF total > 0 THEN <<n, total>> ELSE <<0, 1>>

\* the total taken from the first agent of the pool alone
SumCalls_first(ast, n) == IF n = 0 THEN 0 ELSE ast[1].api_calls

RECURSIVE SumCalls(_, _)
\* sum(agent.get_stats()['api_calls'] for agent in self.agent_pool)
SumCalls(ast, n) == IF n = 0 THEN 0 ELSE ast[n].api_calls + SumCalls(ast, n - 1)

\* the dict run() returns (agent_summaries are the agents' own state)
RunResult(st, ast, n) ==
    [total_pairings |-> st.total_pairings,
     total_rounds |-> st.total_rounds,
     total_api_calls |-> SumCalls(ast, n),
     cooperation_rate |-> Rate(st.cooperation_count, st.cooperation_count + st.defection_count),
     coop_ewan |-> Rate(st.coop_ewan_count, st.coop_ewan_count + st.defection_ewan_count),
     moves_by_game |-> st.moves_by_game]

(***************************************************************************)
(* The experiment configurations of the model.                             *)
(***************************************************************************)
\* the most np.random.poisson returns
MaxPoisson == 2
\* the most pairings of a run
MaxPairings == 2
\* the most communication turns of a round
MaxComm == 1

PdOnly == [g \in GameTypes |-> IF g = "prisoners_dilemma" THEN 1 ELSE 0]
PdCoord == [g \in GameTypes |-> IF g \in {"prisoners_dilemma", "coordination"} THEN 1 ELSE 0]
AllGames == [g \in GameTypes |-> 1]

Config(n, dry, avg, fixed, pairings, gossip, limit, comm, props, varies) ==
    [num_agents |-> n, dry_run |-> dry, avg_rounds |-> avg, rounds_fixed |-> fixed,
     total_pairings |-> pairings, allow_gossip |-> gossip, memory_limit |-> limit,
     max_communication_rounds |-> comm, game_proportions |-> props,
     game_varies_across_pairings |-> varies]

\* the end-to-end scenario of the specification, for each pool and each value
\* of what it leaves open
EndToEndConfigs ==
    {Config(n, TRUE, 2, TRUE, 1, gossip, 12, comm, PdOnly, TRUE) :
        n \in {2, 3}, gossip \in BOOLEAN, comm \in 0..MaxComm}

\* dry runs: every game type, gossip, fixed and drawn round counts
DryConfigs ==
    {Config(3, TRUE, avg, fixed, 1, TRUE, 12, 1, AllGames, varies) :
        avg \in 0..1, fixed \in BOOLEAN, varies \in BOOLEAN}

\* runs with a live provider: gossip among three agents
GossipConfigs ==
    {Config(3, FALSE, 1, TRUE, 1, TRUE, limit, 0, PdOnly, TRUE) : limit \in {4, 12}}

\* runs with a live provider: the communication phase
CommConfigs ==
    {Config(2, FALSE, 1, TRUE, 1, FALSE, 4, comm, AllGames, TRUE) : comm \in 0..MaxComm}

\* runs with a live provider: several rounds, fixed or drawn, of one game
\* type or of several
RoundsConfigs ==
    {Config(2, FALSE, avg, fixed, 1, FALSE, 4, 0, PdCoord, varies) :
        avg \in {0, 2}, fixed \in BOOLEAN, varies \in BOOLEAN}

\* runs with a live provider: several pairings
PairingsConfigs ==
    {Config(2, FALSE, 1, TRUE, pairings, FALSE, 4, 0, PdOnly, TRUE) :
        pairings \in 0..MaxPairings}

LiveConfigs == GossipConfigs \cup CommConfigs \cup RoundsConfigs \cup PairingsConfigs

Configs == EndToEndConfigs \cup DryConfigs \cup LiveConfigs

NoScenario == [game_type |-> "", name |-> "", options |-> <<>>, move_mapping |-> <<>>]
NoCall == [agent |-> 0, call_type |-> "", failed |-> FALSE, prompt |-> None, response |-> ""]
NoFn == [op |-> "none"]

VARIABLES
    call,              \* the pure operation being applied, with its arguments
    ret,               \* its result, NoRet before it returns
    cfg,               \* experiment_config, dry_run and the size of the agent pool
    pc,                \* where run() is
    agent1, agent2,    \* the two agents of the pairing, 0 outside a pairing
    poisson,           \* what np.random.poisson returned for the pairing, None if not drawn
    num_rounds,
    games_for_rounds,
    scenario,          \* the scenario of the round
    ctx_memory,        \* context1['memory'], context2['memory']
    messages,          \* the transcript of the round
    comm_turn,         \* the communicate calls made in the round
    move1, move2,      \* the moves of the round, "" before they are made
    pairing_history,
    gossip,            \* the gossip generated and not yet received, None if none
    memories,          \* Agent.memories, per agent
    agent_stats,       \* Agent.stats, per agent
    stats,             \* SimulationEngine.stats
    logged,            \* the rows of the data logger's moves and payoffs files
    result,            \* what run() returned, None before
    last_call,         \* the provider call of the latest step, NoCall if it made none
    batch,             \* the arguments of run_batch: the number of jobs and workers
    batch_pc,          \* where run_batch is
    submitted,         \* the jobs the loop of run_batch has got to
    futures,           \* per job, the state of its run_single_experiment call
    proc,              \* per job, what became of its subprocess, "none" before
    job_result,        \* per job, the status of the result dict its call returned
    results            \* the results list of run_batch

fnVars == <<call, ret>>
engineVars == <<cfg, pc, agent1, agent2, poisson, num_rounds, games_for_rounds, scenario,
                ctx_memory, messages, comm_turn, move1, move2, pairing_history, gossip,
                memories, agent_stats, stats, logged, result, last_call>>
batchVars == <<batch, batch_pc, submitted, futures, proc, job_result, results>>
vars == <<call, ret, cfg, pc, agent1, agent2, poisson, num_rounds, games_for_rounds, scenario,
          ctx_memory, messages, comm_turn, move1, move2, pairing_history, gossip,
          memories, agent_stats, stats, logged, result, last_call,
          batch, batch_pc, submitted, futures, proc, job_result, results>>

\* run_batch called with the given number of jobs and of workers
BatchInit(total, workers) ==
    /\ batch = [total |-> total, workers |-> workers]
    /\ batch_pc = "start"
    /\ submitted = 0
    /\ futures = [j \in 1..total |-> "none"]
    /\ proc = [j \in 1..total |-> "none"]
    /\ job_result = [j \in 1..total |-> "unknown"]
    /\ results = <<>>

Agents == 1..cfg.num_agents

\* the engine and its agents after construction
EngineInit(c) ==
    /\ cfg = c
    /\ pc = "run"
    /\ agent1 = 0
    /\ agent2 = 0
    /\ poisson = None
    /\ num_rounds = 0
    /\ games_for_rounds = <<>>
    /\ scenario = NoScenario
    /\ ctx_memory = <<None, None>>
    /\ messages = <<>>
    /\ comm_turn = 0
    /\ move1 = ""
    /\ move2 = ""
    /\ pairing_history = <<>>
    /\ gossip = None
    /\ memories = [a \in 1..c.num_agents |-> EmptyDict]
    /\ agent_stats = [a \in 1..c.num_agents |->
                        [total_games |-> 0, total_payoff |-> 0,
                         strategies_used |-> EmptyDict, api_calls |-> 0]]
    /\ stats = [total_pairings |-> 0, total_rounds |-> 0, total_api_calls |-> 0,
                moves_by_game |-> EmptyDict, cooperation_count |-> 0,
                defection_count |-> 0, coop_ewan_count |-> 0, defection_ewan_count |-> 0]
    /\ logged = [moves |-> 0, payoffs |-> 0]
    /\ result = None
    /\ last_call = NoCall

Init ==
    /\ \E c \in Configs : EngineInit(c)
    /\ call = NoFn
    /\ ret = NoRet
    /\ BatchInit(0, 1)

(***************************************************************************)
(* SimulationEngine.run, step by step.                                     *)
(***************************************************************************)
Opponent(a) == IF a = agent1 THEN agent2 ELSE agent1

\* a context whose history already holds the moves made in the current round
prepare_context_leaky(a, o) ==
    [opponent_id |-> o,
     scenario |-> scenario,
     history |-> IF move1 # ""
                 THEN Append(pairing_history,
                             [round |-> Len(pairing_history) + 1, moves |-> (agent1 :> move1)])
                 ELSE pairing_history,
     memory |-> ctx_memory[IF a = agent1 THEN 1 ELSE 2],
     round_number |-> Len(pairing_history) + 1]

\* _prepare_context, as the context reads while the round is played: history
\* is the pairing's list itself, memory the value taken when the round began
prepare_context(a, o) ==
    [opponent_id |-> o,
     scenario |-> scenario,
     history |-> pairing_history,
     memory |-> ctx_memory[IF a = agent1 THEN 1 ELSE 2],
     round_number |-> Len(pairing_history) + 1]

\* the move prompt agent a is given in the current state
MovePrompt(a) == build_move_prompt(a, prepare_context(a, Opponent(a)), messages)

\* the record of one provider call
Called(a, call_type, outcome, prompt) ==
    [agent |-> a, call_type |-> call_type,
     failed |-> ~cfg.dry_run /\ outcome.failed, prompt |-> prompt,
     response |-> call_llm(cfg.dry_run, call_type, outcome).response]

\* where run() goes after a provider call: nowhere if the call raised
After(r, next) == IF r.raised THEN "aborted" ELSE next

\* run: the next iteration of the loop over the pairings, random.sample
StartPairing ==
    /\ pc = "run"
    /\ stats.total_pairings < cfg.total_pairings
    /\ \E a \in Agents, b \in Agents :
        /\ a # b
        /\ agent1' = a
        /\ agent2' = b
    /\ pc' = "round_count"
    /\ last_call' = NoCall
    /\ UNCHANGED batchVars
    /\ UNCHANGED <<call, ret, cfg, poisson, num_rounds, games_for_rounds, scenario,
                   ctx_memory, messages, comm_turn, move1, move2, pairing_history,
                   gossip, memories, agent_stats, stats, logged, result>>

\* _run_pairing: the number of rounds
RoundCount ==
    /\ pc = "round_count"
    /\ \E p \in (IF cfg.rounds_fixed THEN {None}
                 ELSE IF cfg.avg_rounds = 0 THEN {Some(0)}
                 ELSE {Some(n) : n \in 0..MaxPoisson}) :
        /\ poisson' = p
        /\ num_rounds' = NumRounds(cfg.rounds_fixed, cfg.avg_rounds,
                                   IF p = None THEN 0 ELSE p[1])
    /\ pc' = "game_select"
    /\ last_call' = NoCall
    /\ UNCHANGED batchVars
    /\ UNCHANGED <<call, ret, cfg, agent1, agent2, games_for_rounds, scenario,
                   ctx_memory, messages, comm_turn, move1, move2, pairing_history,
                   gossip, memories, agent_stats, stats, logged, result>>

\* _run_pairing: the game types of the rounds, and the empty history
GameSelect ==
    /\ pc = "game_select"
    /\ games_for_rounds' \in GamesForRounds(cfg.game_varies_across_pairings,
                                            cfg.game_proportions, num_rounds)
    /\ pairing_history' = <<>>
    /\ pc' = IF num_rounds > 0 THEN "round_start" ELSE "memory1"
    /\ last_call' = NoCall
    /\ UNCHANGED batchVars
    /\ UNCHANGED <<call, ret, cfg, agent1, agent2, poisson, num_rounds, scenario,
                   ctx_memory, messages, comm_turn, move1, move2,
                   gossip, memories, agent_stats, stats, logged, result>>

\* _run_pairing: the scenario and the contexts of the round, the empty transcript
StartRound ==
    /\ pc = "round_start"
    /\ LET game_type == games_for_rounds[Len(pairing_history) + 1]
       IN  \E i \in 1..Len(scenarios[game_type]) : scenario' = get_scenario(game_type, i)
    /\ ctx_memory' = <<Get(memories[agent1], agent2), Get(memories[agent2], agent1)>>
    /\ messages' = <<>>
    /\ comm_turn' = 0
    /\ pc' = IF cfg.max_communication_rounds > 0 THEN "communicate" ELSE "move1"
    /\ last_call' = NoCall
    /\ UNCHANGED batchVars
    /\ UNCHANGED <<call, ret, cfg, agent1, agent2, poisson, num_rounds, games_for_rounds,
                   move1, move2, pairing_history, gossip, memories, agent_stats, stats,
                   logged, result>>

\* one Agent.communicate of the communication phase: agent1 on the even
\* calls of the round, agent2 on the odd ones
Communicate ==
    /\ pc = "communicate"
    /\ LET speaker == IF comm_turn % 2 = 0 THEN agent1 ELSE agent2
       IN  \E o \in Outcomes("communication", scenario) :
            LET r == call_llm(cfg.dry_run, "communication", o)
            IN  /\ agent_stats' = [agent_stats EXCEPT ![speaker].api_calls = @ + 1]
                /\ messages' = IF ~r.raised /\ r.response # ""
                               THEN Append(messages, [sender |-> speaker, message |-> r.response])
                               ELSE messages
                /\ pc' = After(r, IF comm_turn + 1 < 2 * cfg.max_communication_rounds
                                  THEN "communicate" ELSE "move1")
                /\ last_call' = Called(speaker, "communication", o,
                        Some(build_communication_prompt(
                                speaker, prepare_context(speaker, Opponent(speaker)), messages)))
    /\ comm_turn' = comm_turn + 1
    /\ UNCHANGED batchVars
    /\ UNCHANGED <<call, ret, cfg, agent1, agent2, poisson, num_rounds, games_for_rounds,
                   scenario, ctx_memory, move1, move2, pairing_history, gossip, memories,
                   stats, logged, result>>

\* make_move counting the move in a fresh strategies_used
MakeMove_fresh_counts(a, o) ==
    LET prompt == MovePrompt(a)
        r == call_llm(cfg.dry_run, "move_decision", o)
        move == extract_move(r.response, scenario.game_type, scenario.move_mapping)
    IN  [move |-> IF r.raised THEN "" ELSE move,
         raised |-> r.raised,
         stats |-> [agent_stats[a] EXCEPT !.api_calls = @ + 1,
                                          !.total_games = @ + 1,
                                          !.strategies_used = Add(EmptyDict, move, 1)],
         called |-> Called(a, "move_decision", o, Some(prompt))]

\* Agent.make_move of agent a: its move and its stats after the provider's outcome
MakeMove(a, o) ==
    LET prompt == MovePrompt(a)
        r == call_llm(cfg.dry_run, "move_decision", o)
        move == extract_move(r.response, scenario.game_type, scenario.move_mapping)
    IN  [move |-> IF r.raised THEN "" ELSE move,
         raised |-> r.raised,
         stats |-> IF r.raised
                   THEN [agent_stats[a] EXCEPT !.api_calls = @ + 1]
                   ELSE [agent_stats[a] EXCEPT !.api_calls = @ + 1,
                                               !.total_games = @ + 1,
                                               !.strategies_used = Add(@, move, 1)],
         called |-> Called(a, "move_decision", o, Some(prompt))]

\* _run_pairing: agent1.make_move
MakeMove1 ==
    /\ pc = "move1"
    /\ \E o \in Outcomes("move_decision", scenario) :
        LET m == MakeMove(agent1, o)
        IN  /\ move1' = m.move
            /\ agent_stats' = [agent_stats EXCEPT ![agent1] = m.stats]
            /\ pc' = After(m, "move2")
            /\ last_call' = m.called
    /\ UNCHANGED batchVars
    /\ UNCHANGED <<call, ret, cfg, agent1, agent2, poisson, num_rounds, games_for_rounds,
                   scenario, ctx_memory, messages, comm_turn, move2, pairing_history,
                   gossip, memories, stats, logged, result>>

\* _run_pairing: agent2.make_move
MakeMove2 ==
    /\ pc = "move2"
    /\ \E o \in Outcomes("move_decision", scenario) :
        LET m == MakeMove(agent2, o)
        IN  /\ move2' = m.move
            /\ agent_stats' = [agent_stats EXCEPT ![agent2] = m.stats]
            /\ pc' = After(m, "payoff")
            /\ last_call' = m.called
    /\ UNCHANGED batchVars
    /\ UNCHANGED <<call, ret, cfg, agent1, agent2, poisson, num_rounds, games_for_rounds,
                   scenario, ctx_memory, messages, comm_turn, move1, pairing_history,
                   gossip, memories, stats, logged, result>>

\* _run_pairing: the moves logged, the payoffs computed, logged and added to
\* the agents' totals, the statistics updated, the round appended to the history
ScoreRound ==
    /\ pc = "payoff"
    /\ LET round_num == Len(pairing_history)
           game_type == games_for_rounds[round_num + 1]
           payoffs == calculate_payoffs(game_type, move1, move2)
       IN  /\ logged' = [moves |-> logged.moves + 2, payoffs |-> logged.payoffs + 2]
           /\ agent_stats' = [agent_stats EXCEPT ![agent1].total_payoff = @ + payoffs[1],
                                                 ![agent2].total_payoff = @ + payoffs[2]]
           /\ stats' = [update_stats(stats, game_type, move1, move2)
                            EXCEPT !.total_rounds = @ + 1]
           /\ pairing_history' = Append(pairing_history,
                    [round |-> round_num + 1,
                     game_type |-> game_type,
                     moves |-> (agent1 :> move1) @@ (agent2 :> move2),
                     payoffs |-> (agent1 :> payoffs[1]) @@ (agent2 :> payoffs[2])])
           /\ pc' = IF round_num + 1 < num_rounds THEN "round_start" ELSE "memory1"
    /\ last_call' = NoCall
    /\ UNCHANGED batchVars
    /\ UNCHANGED <<call, ret, cfg, agent1, agent2, poisson, num_rounds, games_for_rounds,
                   scenario, ctx_memory, messages, comm_turn, move1, move2, gossip,
                   memories, result>>

\* _run_pairing: agent1.update_memory_after_pairing
UpdateMemory1 ==
    /\ pc = "memory1"
    /\ \E o \in Outcomes("memory_update", scenario) :
        LET r == call_llm(cfg.dry_run, "memory_update", o)
        IN  /\ memories' = IF r.raised THEN memories
                           ELSE [memories EXCEPT ![agent1] =
                                    update_memory_after_pairing(@, agent2, r.response,
                                                                cfg.memory_limit)]
            /\ pc' = After(r, "memory2")
            /\ last_call' = Called(agent1, "memory_update", o,
                    Some(build_memory_update_prompt(agent1, agent2, pairing_history,
                                                    memories[agent1])))
    /\ agent_stats' = [agent_stats EXCEPT ![agent1].api_calls = @ + 1]
    /\ UNCHANGED batchVars
    /\ UNCHANGED <<call, ret, cfg, agent1, agent2, poisson, num_rounds, games_for_rounds,
                   scenario, ctx_memory, messages, comm_turn, move1, move2,
                   pairing_history, gossip, stats, logged, result>>

\* _run_pairing: agent2.update_memory_after_pairing, and the return, which
\* leaves the locals of the rounds behind
UpdateMemory2 ==
    /\ pc = "memory2"
    /\ \E o \in Outcomes("memory_update", scenario) :
        LET r == call_llm(cfg.dry_run, "memory_update", o)
        IN  /\ memories' = IF r.raised THEN memories
                           ELSE [memories EXCEPT ![agent2] =
                                    update_memory_after_pairing(@, agent1, r.response,
                                                                cfg.memory_limit)]
            /\ pc' = After(r, IF cfg.allow_gossip THEN "gossip1" ELSE "end_pairing")
            /\ last_call' = Called(agent2, "memory_update", o,
                    Some(build_memory_update_prompt(agent2, agent1, pairing_history,
                                                    memories[agent2])))
    /\ agent_stats' = [agent_stats EXCEPT ![agent2].api_calls = @ + 1]
    /\ scenario' = NoScenario
    /\ ctx_memory' = <<None, None>>
    /\ messages' = <<>>
    /\ comm_turn' = 0
    /\ move1' = ""
    /\ move2' = ""
    /\ poisson' = None
    /\ num_rounds' = 0
    /\ games_for_rounds' = <<>>
    /\ pairing_history' = <<>>
    /\ UNCHANGED batchVars
    /\ UNCHANGED <<call, ret, cfg, agent1, agent2, gossip, stats, logged, result>>

\* the gossip targets with the two agents of the pairing among them
other_agents_all == Agents

\* _handle_gossip: [a for a in self.agent_pool if a not in [agent1, agent2]]
other_agents == Agents \ {agent1, agent2}

\* _handle_gossip: the gossip of one of the two agents (k = 1: agent1, then
\* k = 2: agent2).  random.random() decides whether it gossips, random.choice
\* to whom; generate_gossip asks the provider only with a memory about the
\* former opponent.
GenerateGossip(k) ==
    /\ pc = (IF k = 1 THEN "gossip1" ELSE "gossip2")
    /\ LET source == IF k = 1 THEN agent1 ELSE agent2
           about == IF k = 1 THEN agent2 ELSE agent1
           next == IF k = 1 THEN "gossip2" ELSE "end_pairing"
       IN  \/ /\ pc' = next
              /\ last_call' = NoCall
              /\ UNCHANGED <<gossip, agent_stats>>
           \/ /\ other_agents # {}
              /\ \E gossip_target \in other_agents :
                    IF about \notin DOMAIN memories[source]
                    THEN /\ pc' = next
                         /\ last_call' = NoCall
                         /\ UNCHANGED <<gossip, agent_stats>>
                    ELSE \E o \in Outcomes("gossip_generation", scenario) :
                            LET r == call_llm(cfg.dry_run, "gossip_generation", o)
                            IN  /\ agent_stats' = [agent_stats EXCEPT ![source].api_calls = @ + 1]
                                /\ last_call' = Called(source, "gossip_generation", o, None)
                                /\ IF ~r.raised /\ r.response # ""
                                   THEN /\ gossip' = Some([from_agent |-> source,
                                                           to_agent |-> gossip_target,
                                                           about_agent |-> about,
                                                           text |-> r.response])
                                        /\ pc' = (IF k = 1 THEN "receive1" ELSE "receive2")
                                   ELSE /\ gossip' = gossip
                                        /\ pc' = After(r, next)
    /\ UNCHANGED batchVars
    /\ UNCHANGED <<call, ret, cfg, agent1, agent2, poisson, num_rounds, games_for_rounds,
                   scenario, ctx_memory, messages, comm_turn, move1, move2,
                   pairing_history, memories, stats, logged, result>>

\* _handle_gossip: gossip_target.receive_gossip
ReceiveGossip(k) ==
    /\ pc = (IF k = 1 THEN "receive1" ELSE "receive2")
    /\ LET g == gossip[1]
       IN  \E o \in Outcomes("gossip_processing", scenario) :
            LET r == call_llm(cfg.dry_run, "gossip_processing", o)
            IN  /\ agent_stats' = [agent_stats EXCEPT ![g.to_agent].api_calls = @ + 1]
                /\ memories' = IF r.raised THEN memories
                               ELSE [memories EXCEPT ![g.to_agent] =
                                        receive_gossip(@, g.about_agent, r.response,
                                                       cfg.memory_limit)]
                /\ pc' = After(r, IF k = 1 THEN "gossip2" ELSE "end_pairing")
                /\ last_call' = Called(g.to_agent, "gossip_processing", o, None)
    /\ gossip' = None
    /\ UNCHANGED batchVars
    /\ UNCHANGED <<call, ret, cfg, agent1, agent2, poisson, num_rounds, games_for_rounds,
                   scenario, ctx_memory, messages, comm_turn, move1, move2,
                   pairing_history, stats, logged, result>>

\* run: the pairing counted
EndPairing ==
    /\ pc = "end_pairing"
    /\ stats' = [stats EXCEPT !.total_pairings = @ + 1]
    /\ agent1' = 0
    /\ agent2' = 0
    /\ pc' = "run"
    /\ last_call' = NoCall
    /\ UNCHANGED batchVars
    /\ UNCHANGED <<call, ret, cfg, poisson, num_rounds, games_for_rounds, scenario,
                   ctx_memory, messages, comm_turn, move1, move2, pairing_history,
                   gossip, memories, agent_stats, logged, result>>

\* run: after the last pairing, the API calls summed and the result returned
Finish ==
    /\ pc = "run"
    /\ stats.total_pairings >= cfg.total_pairings
    /\ stats' = [stats EXCEPT !.total_api_calls = SumCalls(agent_stats, cfg.num_agents)]
    /\ result' = Some(RunResult(stats, agent_stats, cfg.num_agents))
    /\ pc' = "done"
    /\ last_call' = NoCall
    /\ UNCHANGED batchVars
    /\ UNCHANGED <<call, ret, cfg, agent1, agent2, poisson, num_rounds, games_for_rounds,
                   scenario, ctx_memory, messages, comm_turn, move1, move2,
                   pairing_history, gossip, memories, agent_stats, logged>>

Next ==
    \/ StartPairing
    \/ RoundCount
    \/ GameSelect
    \/ StartRound
    \/ Communicate
    \/ MakeMove1
    \/ MakeMove2
    \/ ScoreRound
    \/ UpdateMemory1
    \/ UpdateMemory2
    \/ \E k \in {1, 2} : GenerateGossip(k)
    \/ \E k \in {1, 2} : ReceiveGossip(k)
    \/ EndPairing
    \/ Finish

Spec == Init /\ [][Next]_vars

(***************************************************************************)
(* The pure operations, applied to every input of the bounded sets.        *)
(***************************************************************************)
(***************************************************************************)
(* ConfigLoader: what load_agents makes of the frequency cell of a row and *)
(* load_experiment of a parameter row, for files of one row.               *)
(***************************************************************************)
Digits == "0123456789"
DigitChars == {SubSeq(Digits, i, i) : i \in 1..Len(Digits)}
DigitValue(c) == (CHOOSE i \in 1..Len(Digits) : SubSeq(Digits, i, i) = c) - 1

RECURSIVE DigitsValue(_)
DigitsValue(s) ==
    IF Len(s) = 0 THEN 0
    ELSE DigitsValue(SubSeq(s, 1, Len(s) - 1)) * 10 + DigitValue(SubSeq(s, Len(s), Len(s)))

\* int(text) on a str: surrounding whitespace dropped, an optional sign, then
\* decimal digits; None stands for the ValueError raised on anything else
ParseInt(text) ==
    LET s == Strip(text)
        signed == Len(s) > 0 /\ SubSeq(s, 1, 1) \in {"-", "+"}
        body == IF signed THEN SubSeq(s, 2, Len(s)) ELSE s
        well_formed == Len(body) > 0 /\ \A i \in 1..Len(body) : SubSeq(body, i, i) \in DigitChars
    IN  IF ~well_formed THEN None
        ELSE IF signed /\ SubSeq(s, 1, 1) = "-" THEN Some(0 - DigitsValue(body))
        ELSE Some(DigitsValue(body))

\* load_agents on a file whose one row has the given frequency cell
load_agents(frequency) ==
    LET parsed == ParseInt(frequency)
    IN  IF parsed = None THEN [raised |-> TRUE, warned |-> FALSE, agents |-> <<>>]
        ELSE IF parsed[1] < 1
             THEN [raised |-> FALSE, warned |-> TRUE, agents |-> <<[frequency |-> 1]>>]
             ELSE [raised |-> FALSE, warned |-> FALSE, agents |-> <<[frequency |-> parsed[1]]>>]

\* the parameters load_experiment reads with int(value)
IntParameters == {"avg_rounds", "total_pairings", "memory_limit", "max_communication_rounds"}

\* the defaults of load_experiment for them
experiment_defaults ==
    [avg_rounds |-> 5, total_pairings |-> 100, memory_limit |-> 500,
     max_communication_rounds |-> 3]

\* load_experiment on a file whose one row is (parameter, value)
load_experiment(parameter, value) ==
    LET param == Lower(Strip(parameter))
        parsed == ParseInt(Strip(value))
    IN  IF param \notin IntParameters THEN [raised |-> FALSE, config |-> experiment_defaults]
        ELSE IF parsed = None THEN [raised |-> TRUE, config |-> experiment_defaults]
        ELSE [raised |-> FALSE, config |-> [experiment_defaults EXCEPT ![param] = parsed[1]]]

\* the cells tried: zero, negative and positive numbers, with and without
\* blanks and sign, and cells that are no number
NumberCells == {"0", "-1", "-12", "1", "2", " 3", "+4 ", "07", "-0", "", "x", "1.5", "-"}

LoadAgentsCalls == {[op |-> "load_agents", frequency |-> f] : f \in NumberCells}

LoadExperimentCalls ==
    {[op |-> "load_experiment", parameter |-> p, value |-> v] :
        p \in IntParameters \cup {" Avg_Rounds", "seed"}, v \in NumberCells}

(***************************************************************************)
(* batch_runner: load_batch_config on the rows of a batch file and         *)
(* expand_jobs on what it returns.                                         *)
(***************************************************************************)
\* the most rows of a batch file
MaxRows == 2

\* NAME_PATTERN: ^[a-zA-Z0-9_-]+$
NameChars == {SubSeq(Lowercase, i, i) : i \in 1..Len(Lowercase)} \cup UpperChars
                 \cup DigitChars \cup {"_", "-"}
NameMatches(name) ==
    Len(name) > 0 /\ \A i \in 1..Len(name) : SubSeq(name, i, i) \in NameChars

\* the files that exist when the batch file is read
ExistingFiles == {"agents.csv", "experiment.csv"}

\* load_batch_config, one row: the experiment it appends, None when it exits
LoadBatchRow(row) ==
    LET name == Strip(row.experiment_name)
        agents_csv == Strip(row.agents_csv)
        experiment_csv == Strip(row.experiment_csv)
        replicates_str == IF Strip(row.replicates) = "" THEN "1" ELSE Strip(row.replicates)
        replicates == ParseInt(replicates_str)
    IN  IF name = "" \/ ~NameMatches(name) THEN None
        ELSE IF agents_csv \notin ExistingFiles \/ experiment_csv \notin ExistingFiles THEN None
        ELSE IF replicates = None \/ replicates[1] < 1 THEN None
        ELSE Some([experiment_name |-> name, agents_csv |-> agents_csv,
                   experiment_csv |-> experiment_csv, replicates |-> replicates[1]])

\* load_batch_config: the experiments of the rows, None when it exits on a
\* row or on a file without rows
load_batch_config(rows) ==
    IF rows = <<>> \/ \E i \in 1..Len(rows) : LoadBatchRow(rows[i]) = None
    THEN None
    ELSE Some([i \in 1..Len(rows) |-> LoadBatchRow(rows[i])[1]])

RECURSIVE Str(_)
\* str(n) of a natural number
Str(n) ==
    IF n < 10 THEN SubSeq(Digits, n + 1, n + 1)
    ELSE Str(n \div 10) \o SubSeq(Digits, (n % 10) + 1, (n % 10) + 1)

RECURSIVE expand_jobs(_, _)
\* expand_jobs: a job per experiment and replicate, in the order of the rows
expand_jobs(experiments, base_output) ==
    IF experiments = <<>> THEN <<>>
    ELSE LET exp == experiments[Len(experiments)]
         IN  expand_jobs(SubSeq(experiments, 1, Len(experiments) - 1), base_output)
             \o [rep \in 1..exp.replicates |->
                    [experiment_name |-> exp.experiment_name,
                     replicate |-> rep,
                     output_dir |-> base_output \o "/" \o exp.experiment_name
                                        \o "/rep_" \o Str(rep)]]

\* the rows tried: names alike, alike but for blanks, different, empty and
\* with a character outside the pattern; files there or not; replicates
\* omitted, two, zero and no number
BatchRows ==
    {[experiment_name |-> n, agents_csv |-> a, experiment_csv |-> "experiment.csv",
      replicates |-> r] :
        n \in {"exp_a", " exp_a ", "exp-b", "", "exp a"},
        a \in {"agents.csv", "missing.csv"},
        r \in {"", "2", "0", "x"}}

RECURSIVE SeqsUpTo(_, _)
SeqsUpTo(S, n) ==
    IF n = 0 THEN {<<>>}
    ELSE SeqsUpTo(S, n - 1) \cup {Append(q, x) : q \in {t \in SeqsUpTo(S, n - 1) : Len(t) = n - 1}, x \in S}

ExpandJobsCalls ==
    {[op |-> "expand_jobs", rows |-> rows, base_output |-> "results"] :
        rows \in SeqsUpTo(BatchRows, MaxRows)}

FnInit ==
    /\ call \in ExtractCalls \cup PayoffCalls \cup ParetoCalls \cup EquilibriaCalls
                 \cup LoadAgentsCalls \cup LoadExperimentCalls \cup ExpandJobsCalls
    /\ ret = NoRet
    /\ EngineInit(Config(2, TRUE, 1, TRUE, 0, FALSE, 12, 0, PdOnly, TRUE))
    /\ BatchInit(0, 1)

ApplyExtractMove ==
    /\ call.op = "extract_move"
    /\ ret = NoRet
    /\ ret' = [op |-> "extract_move",
               move |-> extract_move(call.response, call.game_type, call.move_mapping)]
    /\ UNCHANGED call
    /\ UNCHANGED engineVars
    /\ UNCHANGED batchVars

ApplyCalculatePayoffs ==
    /\ call.op = "calculate_payoffs"
    /\ ret = NoRet
    /\ ret' = [op |-> "calculate_payoffs",
               payoffs |-> calculate_payoffs(call.game_type, call.move1, call.move2)]
    /\ UNCHANGED call
    /\ UNCHANGED engineVars
    /\ UNCHANGED batchVars

ApplyIsParetoOptimal ==
    /\ call.op = "is_pareto_optimal"
    /\ ret = NoRet
    /\ ret' = [op |-> "is_pareto_optimal",
               optimal |-> is_pareto_optimal(call.game_type, call.move1, call.move2)]
    /\ UNCHANGED call
    /\ UNCHANGED engineVars
    /\ UNCHANGED batchVars

ApplyGetEquilibria ==
    /\ call.op = "get_equilibria"
    /\ ret = NoRet
    /\ ret' = [op |-> "get_equilibria", equilibria |-> get_equilibria(call.game_type)]
    /\ UNCHANGED call
    /\ UNCHANGED engineVars
    /\ UNCHANGED batchVars

ApplyLoadAgents ==
    /\ call.op = "load_agents"
    /\ ret = NoRet
    /\ ret' = [op |-> "load_agents", result |-> load_agents(call.frequency)]
    /\ UNCHANGED call
    /\ UNCHANGED engineVars
    /\ UNCHANGED batchVars

ApplyLoadExperiment ==
    /\ call.op = "load_experiment"
    /\ ret = NoRet
    /\ ret' = [op |-> "load_experiment",
               result |-> load_experiment(call.parameter, call.value)]
    /\ UNCHANGED call
    /\ UNCHANGED engineVars
    /\ UNCHANGED batchVars

\* main of batch_runner: load_batch_config, then expand_jobs on its result
ApplyExpandJobs ==
    /\ call.op = "expand_jobs"
    /\ ret = NoRet
    /\ LET experiments == load_batch_config(call.rows)
       IN  ret' = [op |-> "expand_jobs",
                   exited |-> experiments = None,
                   jobs |-> IF experiments = None THEN <<>>
                            ELSE expand_jobs(experiments[1], call.base_output)]
    /\ UNCHANGED call
    /\ UNCHANGED engineVars
    /\ UNCHANGED batchVars

FnNext ==
    \/ ApplyExtractMove
    \/ ApplyCalculatePayoffs
    \/ ApplyIsParetoOptimal
    \/ ApplyGetEquilibria
    \/ ApplyLoadAgents
    \/ ApplyLoadExperiment
    \/ ApplyExpandJobs

SpecFn == FnInit /\ [][FnNext]_vars

(***************************************************************************)
(* batch_runner: run_batch over jobs 1..batch.total, each job a call of     *)
(* run_single_experiment on its own subprocess.                            *)
(***************************************************************************)
\* the most jobs of a batch and the most workers
MaxJobs == 3
MaxWorkers == 2

\* what becomes of the subprocess of a job: it exits with 0, exits with
\* another code, runs into EXPERIMENT_TIMEOUT, or cannot be launched
ProcOutcomes == {"exit_0", "exit_nonzero", "timeout", "launch_error"}

\* a timeout recorded like any other failure
run_single_experiment_nodistinct(outcome) ==
    IF outcome = "exit_0" THEN "success" ELSE "failed"

\* run_single_experiment: result["status"] for the outcome of subprocess.run
run_single_experiment(outcome) ==
    CASE outcome = "exit_0"       -> "success"
      [] outcome = "exit_nonzero" -> "failed"
      [] outcome = "timeout"      -> "timeout"
      [] outcome = "launch_error" -> "failed"

Jobs == 1..batch.total
Collected(j) == \E i \in 1..Len(results) : results[i].job = j

\* run_batch, workers == 1: the next job run to its end and its result appended
RunSequentialJob ==
    /\ batch_pc = "start"
    /\ batch.workers = 1
    /\ submitted < batch.total
    /\ \E o \in ProcOutcomes :
        LET j == submitted + 1
        IN  /\ proc' = [proc EXCEPT ![j] = o]
            /\ job_result' = [job_result EXCEPT ![j] = run_single_experiment(o)]
            /\ results' = Append(results, [job |-> j, status |-> run_single_experiment(o)])
    /\ submitted' = submitted + 1
    /\ UNCHANGED <<batch, batch_pc, futures>>
    /\ UNCHANGED <<call, ret>>
    /\ UNCHANGED engineVars

\* run_batch, parallel: pool.submit of the next job; after the last one the
\* loop over as_completed begins
SubmitJob ==
    /\ batch_pc = "start"
    /\ batch.workers # 1
    /\ submitted < batch.total
    /\ futures' = [futures EXCEPT ![submitted + 1] = "pending"]
    /\ submitted' = submitted + 1
    /\ batch_pc' = IF submitted + 1 = batch.total THEN "collect" ELSE "start"
    /\ UNCHANGED <<batch, proc, job_result, results>>
    /\ UNCHANGED <<call, ret>>
    /\ UNCHANGED engineVars

\* a free worker thread of the pool takes the job longest in the queue
StartJob(j) ==
    /\ futures[j] = "pending"
    /\ \A k \in 1..(j - 1) : futures[k] # "pending"
    /\ Cardinality({k \in Jobs : futures[k] = "running"}) < batch.workers
    /\ futures' = [futures EXCEPT ![j] = "running"]
    /\ UNCHANGED <<batch, batch_pc, submitted, proc, job_result, results>>
    /\ UNCHANGED <<call, ret>>
    /\ UNCHANGED engineVars

\* run_single_experiment of job j returns in its worker thread
FinishJob(j) ==
    /\ futures[j] = "running"
    /\ \E o \in ProcOutcomes :
        /\ proc' = [proc EXCEPT ![j] = o]
        /\ job_result' = [job_result EXCEPT ![j] = run_single_experiment(o)]
    /\ futures' = [futures EXCEPT ![j] = "finished"]
    /\ UNCHANGED <<batch, batch_pc, submitted, results>>
    /\ UNCHANGED <<call, ret>>
    /\ UNCHANGED engineVars

\* run_batch, parallel: as_completed yields a finished future and its result
\* is appended
CollectResult(j) ==
    /\ batch_pc = "collect"
    /\ futures[j] = "finished"
    /\ ~Collected(j)
    /\ results' = Append(results, [job |-> j, status |-> job_result[j]])
    /\ UNCHANGED <<batch, batch_pc, submitted, futures, proc, job_result>>
    /\ UNCHANGED <<call, ret>>
    /\ UNCHANGED engineVars

\* run_batch returns the results
ReturnBatch ==
    /\ batch_pc \in {"start", "collect"}
    /\ submitted = batch.total
    /\ Len(results) = batch.total
    /\ batch_pc' = "returned"
    /\ UNCHANGED <<batch, submitted, futures, proc, job_result, results>>
    /\ UNCHANGED <<call, ret>>
    /\ UNCHANGED engineVars

BatchSpecInit ==
    /\ \E total \in 0..MaxJobs, workers \in 1..MaxWorkers : BatchInit(total, workers)
    /\ call = NoFn
    /\ ret = NoRet
    /\ EngineInit(Config(2, TRUE, 1, TRUE, 0, FALSE, 12, 0, PdOnly, TRUE))

BatchNext ==
    \/ RunSequentialJob
    \/ SubmitJob
    \/ \E j \in Jobs : StartJob(j)
    \/ \E j \in Jobs : FinishJob(j)
    \/ \E j \in Jobs : CollectResult(j)
    \/ ReturnBatch

SpecBatch == BatchSpecInit /\ [][BatchNext]_vars

\* the jobs among 1..n whose future is done and not cancelled, in the order
\* of the futures dict
RECURSIVE DoneJobs(_)
DoneJobs(n) ==
    IF n = 0 THEN <<>>
    ELSE IF futures[n] = "finished" THEN Append(DoneJobs(n - 1), n) ELSE DoneJobs(n - 1)

\* run_batch, parallel: KeyboardInterrupt in the submit loop or in the loop
\* over as_completed, and its handler: pool.shutdown(wait=False,
\* cancel_futures=True) cancels the futures no worker has taken, then the
\* result of every future that is done and not cancelled is appended
Interrupt ==
    /\ batch_pc \in {"start", "collect"}
    /\ batch.workers # 1
    /\ LET order == DoneJobs(batch.total)
       IN  results' = results \o [i \in 1..Len(order) |->
                                    [job |-> order[i], status |-> job_result[order[i]]]]
    /\ futures' = [j \in Jobs |-> IF futures[j] = "pending" THEN "cancelled" ELSE futures[j]]
    /\ batch_pc' = "interrupted"
    /\ UNCHANGED <<batch, submitted, proc, job_result>>
    /\ UNCHANGED <<call, ret>>
    /\ UNCHANGED engineVars

\* run_batch after the handler: the `with ThreadPoolExecutor` block is left,
\* which is shutdown(wait=True), and the results are returned
ReturnInterrupted ==
    /\ batch_pc = "interrupted"
    /\ \A j \in Jobs : futures[j] # "running"
    /\ batch_pc' = "returned_interrupted"
    /\ UNCHANGED <<batch, submitted, futures, proc, job_result, results>>
    /\ UNCHANGED <<call, ret>>
    /\ UNCHANGED engineVars

BatchInterruptNext ==
    \/ BatchNext
    \/ Interrupt
    \/ ReturnInterrupted

SpecBatchInterrupt == BatchSpecInit /\ [][BatchInterruptNext]_vars

(***************************************************************************)
(* The claims.                                                             *)
(***************************************************************************)
Swap(p) == <<p[2], p[1]>>

\* C1: for every game type, every response text and every move mapping of a
\* catalog scenario of that game type (or none), _extract_move returns one of
\* the two canonical moves of the game type, never the raw response text.
C1_CanonicalClosure ==
    (call.op = "extract_move" /\ ret # NoRet)
        => /\ ret.move \in ValidMoveSet(call.game_type)
           /\ (call.response \notin ValidMoveSet(call.game_type) => ret.move # call.response)

\* a label of the scenario's mapping found in a response that is no canonical
\* move, and the second canonical move returned
C1_Witness ==
    /\ call.op = "extract_move"
    /\ ret # NoRet
    /\ call.move_mapping # <<>>
    /\ call.response \notin ValidMoveSet(call.game_type)
    /\ ret.move = valid_moves[call.game_type][2]

\* C7: for every game type and canonical moves x, y, calculate_payoffs(g, x, y)
\* is calculate_payoffs(g, y, x) with its two components swapped.
C7_PayoffSymmetry ==
    (/\ call.op = "calculate_payoffs"
     /\ ret # NoRet
     /\ call.move1 \in ValidMoveSet(call.game_type)
     /\ call.move2 \in ValidMoveSet(call.game_type))
        => ret.payoffs = Swap(calculate_payoffs(call.game_type, call.move2, call.move1))

\* the payoffs of two different canonical moves, unequal for the two players
C7_Witness ==
    /\ call.op = "calculate_payoffs"
    /\ ret # NoRet
    /\ call.move1 = "cooperate"
    /\ call.move2 = "defect"
    /\ ret.payoffs = <<0, 5>>

\* the payoff table of the specification, per game type in the order
\* both-first, first/second, second/first, both-second
SpecPayoffRow(g) ==
    CASE g = "prisoners_dilemma" -> << <<3, 3>>, <<0, 5>>, <<5, 0>>, <<1, 1>> >>
      [] g = "stag_hunt"         -> << <<4, 4>>, <<0, 3>>, <<3, 0>>, <<2, 2>> >>
      [] g = "hawk_dove"         -> << <<-1, -1>>, <<3, 1>>, <<1, 3>>, <<2, 2>> >>
      [] g = "coordination"      -> << <<3, 3>>, <<0, 0>>, <<0, 0>>, <<3, 3>> >>

\* the first and second canonical move of each game type, as the table names them
SpecMoves(g) ==
    CASE g = "prisoners_dilemma" -> <<"cooperate", "defect">>
      [] g = "stag_hunt"         -> <<"stag", "hare">>
      [] g = "hawk_dove"         -> <<"hawk", "dove">>
      [] g = "coordination"      -> <<"option_a", "option_b">>

SpecPayoff(g, x, y) ==
    LET i == CHOOSE k \in 1..2 : SpecMoves(g)[k] = x
        j == CHOOSE k \in 1..2 : SpecMoves(g)[k] = y
    IN  SpecPayoffRow(g)[2 * (i - 1) + j]

\* C8: for each game type and each ordered pair of canonical moves,
\* calculate_payoffs returns exactly the payoff pair of the specification table.
C8_PayoffTable ==
    (/\ call.op = "calculate_payoffs"
     /\ ret # NoRet
     /\ call.move1 \in ValidMoveSet(call.game_type)
     /\ call.move2 \in ValidMoveSet(call.game_type))
        => ret.payoffs = SpecPayoff(call.game_type, call.move1, call.move2)

\* hawk against dove, the one row whose first move is the competitive one
C8_Witness ==
    /\ call.op = "calculate_payoffs"
    /\ ret # NoRet
    /\ call.game_type = "hawk_dove"
    /\ call.move1 = "hawk"
    /\ call.move2 = "dove"
    /\ ret.payoffs = <<3, 1>>

\* C2: whatever texts the provider returns to update_memory_after_pairing and
\* receive_gossip, every memory text an agent stores is at most memory_limit
\* characters long.
C2_MemoryCap ==
    \A a \in Agents : \A b \in DOMAIN memories[a] :
        Len(memories[a][b]) <= cfg.memory_limit

\* a gossip answer longer than the limit stored cut to the limit, next to a
\* memory of a pairing cut to the limit as well
C2_Witness ==
    /\ pc = "gossip2"
    /\ last_call.call_type = "gossip_processing"
    /\ Len(LongText) > cfg.memory_limit
    /\ \E b \in DOMAIN memories[last_call.agent] :
        memories[last_call.agent][b] = Prefix(LongText, cfg.memory_limit)
    /\ agent2 \in DOMAIN memories[agent1]
    /\ memories[agent1][agent2] = Prefix(LongText, cfg.memory_limit)

\* the moves and payoffs of the rounds of the history
RoundsRecorded ==
    \A i \in 1..Len(pairing_history) :
        LET rec == pairing_history[i]
        IN  /\ DOMAIN rec.moves = {agent1, agent2}
            /\ DOMAIN rec.payoffs = {agent1, agent2}
            /\ rec.moves[agent1] \in ValidMoveSet(rec.game_type)
            /\ rec.moves[agent2] \in ValidMoveSet(rec.game_type)

\* what a step of run() does with a failed call and with the moves it scores
C3_Step ==
    /\ (pc = "communicate" /\ last_call'.failed) => messages' = messages
    /\ (pc = "move1" /\ last_call'.failed) => move1' = valid_defaults(scenario.game_type)
    /\ (pc = "move2" /\ last_call'.failed) => move2' = valid_defaults(scenario.game_type)
    /\ pc = "payoff" =>
        LET rec == pairing_history'[Len(pairing_history')]
        IN  /\ Len(pairing_history') = Len(pairing_history) + 1
            /\ rec.moves[agent1] = move1
            /\ rec.moves[agent2] = move2
            /\ <<rec.payoffs[agent1], rec.payoffs[agent2]>>
                   = payoff_matrices(rec.game_type)[<<move1, move2>>]

C3_State ==
    /\ pc # "aborted"
    /\ last_call.failed => ENABLED Next
    /\ stats.total_pairings <= cfg.total_pairings
    /\ pc = "done" => /\ stats.total_pairings = cfg.total_pairings
                      /\ result # None
                      /\ result[1].total_pairings = cfg.total_pairings
    /\ logged.moves = 2 * stats.total_rounds
    /\ logged.payoffs = 2 * stats.total_rounds
    /\ RoundsRecorded

\* C3: whichever provider calls fail, run() is never aborted and returns after
\* exactly total_pairings pairings; every round records a canonical move and a
\* payoff for each of the two agents; a failed move decision is scored as the
\* safe default move of the game; a failed communication adds no message.
C3_FailuresAbsorbed == []C3_State /\ [][C3_Step]_vars

\* a run that returned after its two pairings although the last provider call
\* of the second, a memory update, failed
C3_Witness ==
    /\ pc = "end_pairing"
    /\ ~cfg.dry_run
    /\ stats.total_pairings = 1
    /\ cfg.total_pairings = 2
    /\ last_call.call_type = "memory_update"
    /\ last_call.failed
    /\ stats.total_rounds = 2
    /\ logged.moves = 4

\* the game types of the rounds all the same
OneGameType == \A i, j \in DOMAIN games_for_rounds : games_for_rounds[i] = games_for_rounds[j]

\* the rounds played so far were of the game types drawn for them
RoundsFollowDraw ==
    \A i \in 1..Len(pairing_history) : pairing_history[i].game_type = games_for_rounds[i]

\* every game type of positive weight can be drawn for all rounds of the pairing
DrawnOncePossible ==
    \A g \in select_game_type(cfg.game_proportions) :
        ENABLED (GameSelect /\ games_for_rounds' = [i \in 1..num_rounds |-> g])

\* every assignment of game types of positive weight to the rounds can be drawn
DrawnPerRoundPossible ==
    \A f \in [1..num_rounds -> select_game_type(cfg.game_proportions)] :
        ENABLED (GameSelect /\ games_for_rounds' = f)

\* C4 as stated: with game_varies_across_pairings false one game type is drawn
\* for the pairing and every round uses it, with it true the game type is
\* drawn for each round on its own.
C4_AsStated ==
    /\ RoundsFollowDraw
    /\ ~cfg.game_varies_across_pairings => OneGameType
    /\ (pc = "game_select" /\ ~cfg.game_varies_across_pairings) => DrawnOncePossible
    /\ (pc = "game_select" /\ cfg.game_varies_across_pairings) => DrawnPerRoundPossible

\* C4 with the two values of the flag exchanged: with game_varies_across_pairings
\* true one game type is drawn for the pairing and every round uses it, with it
\* false the game type is drawn for each round on its own.
C4_FlagAsCoded ==
    /\ RoundsFollowDraw
    /\ cfg.game_varies_across_pairings => OneGameType
    /\ (pc = "game_select" /\ cfg.game_varies_across_pairings) => DrawnOncePossible
    /\ (pc = "game_select" /\ ~cfg.game_varies_across_pairings) => DrawnPerRoundPossible

\* two rounds of one pairing of different game types, the flag being false
C4_Witness ==
    /\ ~cfg.game_varies_across_pairings
    /\ Len(pairing_history) = 2
    /\ pairing_history[1].game_type # pairing_history[2].game_type

\* what a move step does to the two agents' move prompts
C5_Step ==
    /\ pc = "move1" => MovePrompt(agent2)' = MovePrompt(agent2)
    /\ pc = "move2" => /\ MovePrompt(agent1)' = MovePrompt(agent1)
                       /\ last_call'.prompt = Some(MovePrompt(agent2))
                       /\ last_call'.prompt[1].communication = messages
                       /\ last_call'.prompt[1].played = Len(pairing_history)

\* C5: a step in which one agent makes its move leaves the move prompt of the
\* other agent as it was, so the second mover is given the prompt it would have
\* been given whatever the first mover chose; the messages delivered in the
\* round are part of that prompt.
C5_MoveNotVisible == [][C5_Step]_vars

\* the first mover defected, and the second mover decided on a prompt that
\* shows the first mover's message of the round and no round played
C5_Witness ==
    /\ pc = "payoff"
    /\ move1 = "defect"
    /\ last_call.agent = agent2
    /\ last_call.prompt # None
    /\ last_call.prompt[1].played = 0
    /\ last_call.prompt[1].recent = <<>>
    /\ \E i \in 1..Len(messages) : messages[i].sender = agent1
    /\ last_call.prompt[1].communication = messages

\* the configuration of the end-to-end scenario
EndToEnd ==
    /\ cfg.dry_run
    /\ cfg.num_agents >= 2
    /\ cfg.total_pairings = 1
    /\ cfg.avg_rounds = 2
    /\ cfg.rounds_fixed
    /\ cfg.game_varies_across_pairings
    /\ cfg.game_proportions = PdOnly

\* C6: in the end-to-end scenario run() plays exactly 2 rounds, both of
\* prisoners_dilemma, both agents move cooperate in each and are paid 3 each,
\* and the cooperation_rate returned is 1.
C6_EndToEnd ==
    EndToEnd =>
        /\ \A i \in 1..Len(pairing_history) :
            LET rec == pairing_history[i]
            IN  /\ rec.game_type = "prisoners_dilemma"
                /\ rec.moves = (agent1 :> "cooperate") @@ (agent2 :> "cooperate")
                /\ rec.payoffs = (agent1 :> 3) @@ (agent2 :> 3)
        /\ pc \in {"memory1", "memory2"} => Len(pairing_history) = 2
        /\ pc = "done" =>
            /\ result[1].total_rounds = 2
            /\ result[1].total_pairings = 1
            /\ result[1].moves_by_game = (<<"prisoners_dilemma", "cooperate-cooperate">> :> 2)
            /\ result[1].cooperation_rate = <<4, 4>>
            /\ \A a \in Agents : agent_stats[a].total_payoff = 3 * agent_stats[a].total_games

\* the end-to-end scenario run to its end in a pool of three with gossip
C6_Witness ==
    /\ EndToEnd
    /\ pc = "done"
    /\ cfg.num_agents = 3
    /\ cfg.allow_gossip
    /\ result[1].total_rounds = 2

\* a rate <<numerator, denominator>> within [0, 1]
InUnitInterval(r) == r[2] > 0 /\ 0 <= r[1] /\ r[1] <= r[2]

C9_State ==
    /\ InUnitInterval(RunResult(stats, agent_stats, cfg.num_agents).cooperation_rate)
    /\ InUnitInterval(RunResult(stats, agent_stats, cfg.num_agents).coop_ewan)
    /\ pc = "done" => /\ InUnitInterval(result[1].cooperation_rate)
                      /\ InUnitInterval(result[1].coop_ewan)
                      /\ stats.total_rounds = 0 => /\ result[1].cooperation_rate = <<0, 1>>
                                                   /\ result[1].coop_ewan = <<0, 1>>

\* what scoring a round of the coordination game adds to the counters
C9_Step ==
    (pc = "payoff" /\ games_for_rounds[Len(pairing_history) + 1] = "coordination") =>
        /\ stats'.cooperation_count = stats.cooperation_count + 2
        /\ stats'.defection_count = stats.defection_count
        /\ stats'.coop_ewan_count = stats.coop_ewan_count + (IF move1 = move2 THEN 2 ELSE 0)
        /\ stats'.defection_ewan_count =
               stats.defection_ewan_count + (IF move1 = move2 THEN 0 ELSE 2)

\* C9: cooperation_rate and coop_ewan are within [0, 1] after any rounds, and
\* 0 after none; a round of the coordination game counts in coop_ewan as
\* cooperative for both agents when the two moves are equal and for neither
\* when they differ, and in cooperation_rate as cooperative for both always.
C9_MetricsBounded == []C9_State /\ [][C9_Step]_vars

\* a run of one coordination round whose moves differed: cooperation_rate 1,
\* coop_ewan 0
C9_Witness ==
    /\ pc = "done"
    /\ stats.total_rounds = 1
    /\ \E k \in DOMAIN stats.moves_by_game : k = <<"coordination", "option_a-option_b">>
    /\ result[1].cooperation_rate = <<2, 2>>
    /\ result[1].coop_ewan = <<0, 2>>

\* C10: a pairing plays avg_rounds rounds when rounds_fixed is true, and at
\* least one round when it is false, whatever np.random.poisson returned.
C10_RoundCount ==
    /\ pc \in {"game_select", "round_start", "communicate", "move1", "move2", "payoff",
               "memory1", "memory2"} =>
        /\ Len(pairing_history) <= num_rounds
        /\ cfg.rounds_fixed => num_rounds = cfg.avg_rounds
        /\ ~cfg.rounds_fixed => num_rounds >= 1
    /\ pc \in {"memory1", "memory2"} => Len(pairing_history) = num_rounds

\* the Poisson draw returned 0 and the pairing played one round
C10_Witness ==
    /\ pc = "memory1"
    /\ ~cfg.rounds_fixed
    /\ cfg.avg_rounds = 2
    /\ poisson = Some(0)
    /\ Len(pairing_history) = 1

\* C11: _select_game_type never returns a game type of weight zero; with
\* weight 1 on prisoners_dilemma and 0 on the others every draw returns
\* prisoners_dilemma.
C11_NoZeroWeightGame ==
    /\ \A g \in select_game_type(cfg.game_proportions) : cfg.game_proportions[g] > 0
    /\ \A i \in 1..Len(games_for_rounds) :
        /\ cfg.game_proportions[games_for_rounds[i]] > 0
        /\ cfg.game_proportions = PdOnly => games_for_rounds[i] = "prisoners_dilemma"
    /\ \A i \in 1..Len(pairing_history) :
        cfg.game_proportions[pairing_history[i].game_type] > 0

\* a round of the coordination game drawn, last in the order of the game types
\* and after two game types of weight zero
C11_Witness ==
    /\ pc = "round_start"
    /\ cfg.game_proportions = PdCoord
    /\ Len(games_for_rounds) = 2
    /\ games_for_rounds[1] = "coordination"
    /\ games_for_rounds[2] = "prisoners_dilemma"

\* the cooperative and the competitive move of each game type, and the
\* default of the extraction, as the specification names them
CooperativeMove(g) ==
    CASE g = "prisoners_dilemma" -> "cooperate"
      [] g = "stag_hunt"         -> "stag"
      [] g = "hawk_dove"         -> "dove"
      [] g = "coordination"      -> "option_a"

CompetitiveMove(g) ==
    CASE g = "prisoners_dilemma" -> "defect"
      [] g = "stag_hunt"         -> "hare"
      [] g = "hawk_dove"         -> "hawk"
      [] g = "coordination"      -> "option_b"

\* a keyword of the cooperative, of the competitive set occurs in the text
HasCoopKeyword(text, g) == \E w \in CoopKeywords(g) : Contains(text, w)
HasCompKeyword(text, g) == \E w \in CompKeywords(g) : Contains(text, w)

\* the i-th label of the mapping of the call occurs in its lower-cased response
LabelFound(i) == Contains(Lower(call.response), Lower(call.move_mapping[i][1]))
NoLabelFound == \A i \in 1..Len(call.move_mapping) : ~LabelFound(i)

\* C12: _extract_move returns the move of the first label of the mapping, in
\* its declared order, that occurs in the lower-cased response, whatever
\* keywords occur; with no label found, the move of a keyword set of the game
\* type that has a keyword in the response; with no label and no keyword, the
\* default of the game type (cooperate, stag, dove, option_a).
C12_ExtractionOrder ==
    (call.op = "extract_move" /\ ret # NoRet) =>
        LET text == Lower(call.response)
            g == call.game_type
        IN  /\ \A i \in 1..Len(call.move_mapping) :
                (LabelFound(i) /\ \A j \in 1..(i - 1) : ~LabelFound(j))
                    => ret.move = call.move_mapping[i][2]
            /\ (NoLabelFound /\ (HasCoopKeyword(text, g) \/ HasCompKeyword(text, g))) =>
                \/ HasCoopKeyword(text, g) /\ ret.move = CooperativeMove(g)
                \/ HasCompKeyword(text, g) /\ ret.move = CompetitiveMove(g)
            /\ (NoLabelFound /\ ~HasCoopKeyword(text, g) /\ ~HasCompKeyword(text, g)) =>
                ret.move = CooperativeMove(g)

\* a response with the second label of the mapping before the first and a
\* competitive keyword before both: the move of the first label is returned
C12_Witness ==
    /\ call.op = "extract_move"
    /\ ret # NoRet
    /\ call.game_type = "prisoners_dilemma"
    /\ call.response = "defectmaintain prices"
    /\ call.move_mapping # <<>>
    /\ LabelFound(1)
    /\ HasCompKeyword(Lower(call.response), call.game_type)
    /\ ret.move = "cooperate"

\* C13: a response in which no label of the mapping is found and which holds
\* both a cooperative and a competitive keyword of the game type yields the
\* cooperative move (cooperate, stag, dove, option_a), for every game type.
C13_CoopKeywordsFirst ==
    (/\ call.op = "extract_move"
     /\ ret # NoRet
     /\ NoLabelFound
     /\ HasCoopKeyword(Lower(call.response), call.game_type)
     /\ HasCompKeyword(Lower(call.response), call.game_type))
        => ret.move = CooperativeMove(call.game_type)

\* the same for the game types other than hawk_dove
C13_ExceptHawkDove ==
    (call.op = "extract_move" /\ call.game_type # "hawk_dove") => C13_CoopKeywordsFirst

\* the outcomes of a game type: the pairs of its canonical moves
GameOutcomes(g) == {<<x, y>> : x \in {SpecMoves(g)[1], SpecMoves(g)[2]},
                            y \in {SpecMoves(g)[1], SpecMoves(g)[2]}}

\* outcome o gives both players at least as much as outcome c and one of them more
Dominates(g, o, c) ==
    LET po == SpecPayoff(g, o[1], o[2])
        pcur == SpecPayoff(g, c[1], c[2])
    IN  /\ po[1] >= pcur[1]
        /\ po[2] >= pcur[2]
        /\ (po[1] > pcur[1] \/ po[2] > pcur[2])

\* C14: for every game type and pair of canonical moves, is_pareto_optimal is
\* true exactly when no other outcome of the game gives both players at least
\* as much and one of them strictly more; in prisoners_dilemma (defect, defect)
\* is not Pareto optimal and (cooperate, cooperate) is.
C14_ParetoOptimal ==
    (call.op = "is_pareto_optimal" /\ ret # NoRet) =>
        /\ ret.optimal =
             ~ \E o \in GameOutcomes(call.game_type) :
                    /\ o # <<call.move1, call.move2>>
                    /\ Dominates(call.game_type, o, <<call.move1, call.move2>>)
        /\ (call.game_type = "prisoners_dilemma" /\ call.move1 = "defect" /\ call.move2 = "defect")
                => ~ret.optimal
        /\ (call.game_type = "prisoners_dilemma" /\ call.move1 = "cooperate"
                /\ call.move2 = "cooperate") => ret.optimal

\* (defect, defect) of prisoners_dilemma found not Pareto optimal
C14_Witness ==
    /\ call.op = "is_pareto_optimal"
    /\ ret # NoRet
    /\ call.game_type = "prisoners_dilemma"
    /\ call.move1 = "defect"
    /\ call.move2 = "defect"
    /\ ~ret.optimal

\* neither player gains strictly by changing its own move alone
IsNash(g, o) ==
    /\ \A x \in {SpecMoves(g)[1], SpecMoves(g)[2]} :
            payoff_matrices(g)[<<x, o[2]>>][1] <= payoff_matrices(g)[o][1]
    /\ \A y \in {SpecMoves(g)[1], SpecMoves(g)[2]} :
            payoff_matrices(g)[<<o[1], y>>][2] <= payoff_matrices(g)[o][2]

\* C15: for every game type get_equilibria returns exactly the move pairs that
\* are pure-strategy Nash equilibria of the payoff matrix of the game type; for
\* hawk_dove it returns none.
C15_EquilibriaAreNash ==
    (call.op = "get_equilibria" /\ ret # NoRet /\ call.game_type \in GameTypes) =>
        /\ {ret.equilibria[i] : i \in 1..Len(ret.equilibria)}
               = {o \in GameOutcomes(call.game_type) : IsNash(call.game_type, o)}
        /\ call.game_type = "hawk_dove" => ret.equilibria = <<>>

\* the same for the game types other than hawk_dove
C15_ExceptHawkDove ==
    (call.op = "get_equilibria" /\ call.game_type # "hawk_dove") => C15_EquilibriaAreNash

\* the counters of agent a other than total_payoff are not lowered by the step
CountersKept(a) ==
    /\ agent_stats'[a].total_games >= agent_stats[a].total_games
    /\ agent_stats'[a].api_calls >= agent_stats[a].api_calls
    /\ \A m \in DOMAIN agent_stats[a].strategies_used :
        /\ m \in DOMAIN agent_stats'[a].strategies_used
        /\ agent_stats'[a].strategies_used[m] >= agent_stats[a].strategies_used[m]

\* C16 as stated: no step lowers an agent's games played, total payoff,
\* per-move usage counts or API-call count.
C16_AsStated ==
    [][\A a \in Agents :
            /\ CountersKept(a)
            /\ agent_stats'[a].total_payoff >= agent_stats[a].total_payoff]_vars

\* C16 without the total payoff among the non-decreasing counters: no step
\* lowers an agent's games played, per-move usage counts or API-call count;
\* the total payoff changes only when a round is scored, by the agent's payoff
\* of that round, which is negative for hawk against hawk.
C16_CountersMonotone ==
    [][\A a \in Agents :
            /\ CountersKept(a)
            /\ agent_stats'[a].total_payoff # agent_stats[a].total_payoff =>
                /\ pc = "payoff"
                /\ a \in {agent1, agent2}
                /\ agent_stats'[a].total_payoff =
                       agent_stats[a].total_payoff
                           + pairing_history'[Len(pairing_history')].payoffs[a]
                /\ agent_stats'[a].total_payoff >= agent_stats[a].total_payoff - 1]_vars

\* a round of hawk against hawk scored: the total payoff of an agent below zero
C16_Witness ==
    /\ pc = "memory1"
    /\ Len(pairing_history) = 1
    /\ pairing_history[1].moves[agent1] = "hawk"
    /\ pairing_history[1].moves[agent2] = "hawk"
    /\ agent_stats[agent1].total_payoff = -1
    /\ agent_stats[agent1].total_games = 1

\* the gossip generated and not yet received, and the calls of the gossip phase
C17_GossipTarget ==
    /\ gossip # None =>
        /\ gossip[1].from_agent \in {agent1, agent2}
        /\ gossip[1].to_agent \in Agents \ {agent1, agent2}
        /\ gossip[1].about_agent = Opponent(gossip[1].from_agent)
        /\ gossip[1].about_agent # gossip[1].from_agent
        /\ gossip[1].text # ""
    /\ pc \in {"receive1", "receive2"} =>
        /\ gossip # None
        /\ last_call.call_type = "gossip_generation"
        /\ ~last_call.failed
        /\ gossip[1].from_agent = (IF pc = "receive1" THEN agent1 ELSE agent2)
    /\ last_call.call_type = "gossip_generation" => last_call.agent \in {agent1, agent2}
    /\ last_call.call_type = "gossip_processing" => last_call.agent \notin {agent1, agent2}
    /\ cfg.num_agents = 2 =>
        /\ gossip = None
        /\ pc \notin {"receive1", "receive2"}
        /\ last_call.call_type \notin {"gossip_generation", "gossip_processing"}

\* what a step of the gossip phase does when no text was generated, and what
\* a delivery writes
C17_Step ==
    /\ (pc \in {"gossip1", "gossip2"} /\ pc' \in {"receive1", "receive2"}) =>
            /\ last_call'.call_type = "gossip_generation"
            /\ ~last_call'.failed
    /\ (pc \in {"gossip1", "gossip2"} /\ last_call'.failed) =>
            (gossip' = None /\ pc' \notin {"receive1", "receive2"})
    /\ pc \in {"receive1", "receive2"} =>
            \A a \in Agents : memories'[a] # memories[a] =>
                /\ a = gossip[1].to_agent
                /\ \A b \in DOMAIN memories'[a] :
                        (b \notin DOMAIN memories[a] \/ memories'[a][b] # memories[a][b])
                            => b = gossip[1].about_agent

\* C17: gossip goes to an agent that is neither of the two of the pairing, is
\* about the opponent its source had in the pairing, and reaches receive_gossip
\* only with a non-empty text; in a pool of only the two paired agents no
\* gossip is generated or delivered.
C17_GossipDelivery == []C17_GossipTarget /\ [][C17_Step]_vars

\* gossip of agent2 about agent1 about to be delivered to the third agent
C17_Witness ==
    /\ pc = "receive2"
    /\ cfg.num_agents = 3
    /\ ~cfg.dry_run
    /\ gossip # None
    /\ gossip[1].from_agent = agent2
    /\ gossip[1].about_agent = agent1
    /\ gossip[1].to_agent \notin {agent1, agent2}
    /\ gossip[1].text = LongText

\* the results recorded so far: one at most per job, each with the status
\* that goes with what became of the job's own subprocess
C18_State ==
    /\ \A i \in 1..Len(results) :
        LET j == results[i].job
        IN  /\ j \in Jobs
            /\ results[i].status \in {"success", "failed", "timeout"}
            /\ results[i].status = "timeout" <=> proc[j] = "timeout"
            /\ results[i].status = "failed" <=> proc[j] \in {"exit_nonzero", "launch_error"}
            /\ results[i].status = "success" <=> proc[j] = "exit_0"
            /\ \A k \in 1..Len(results) : results[k].job = j => k = i
    /\ batch_pc = "returned" => \A j \in Jobs : Collected(j)
    /\ batch_pc # "returned" => ENABLED BatchNext

\* the status of a job and the results appended are not changed by any later
\* step, whatever becomes of the other jobs
C18_Step ==
    /\ \A j \in Jobs : job_result[j] # "unknown" => job_result'[j] = job_result[j]
    /\ \A i \in 1..Len(results) : Len(results') >= i /\ results'[i] = results[i]

\* C18: run_batch without an interrupt returns exactly one result per job,
\* with status timeout exactly when the job's subprocess ran into the timeout,
\* failed exactly when it exited non-zero or could not be launched, success
\* exactly when it exited 0; the status of a job does not depend on what
\* became of the other jobs.
C18_BatchIsolation == []C18_State /\ [][C18_Step]_vars

\* a batch of three jobs on two workers returned: a timeout, a crash and a
\* success, collected in another order than submitted
C18_Witness ==
    /\ batch_pc = "returned"
    /\ batch = [total |-> 3, workers |-> 2]
    /\ proc = <<"timeout", "exit_nonzero", "exit_0">>
    /\ Len(results) = 3
    /\ results[1] = [job |-> 3, status |-> "success"]
    /\ results[2] = [job |-> 1, status |-> "timeout"]
    /\ results[3] = [job |-> 2, status |-> "failed"]

\* the cell holds a number and the number is not positive
NonPositiveCell(cell) == ParseInt(cell) # None /\ ParseInt(cell)[1] <= 0

\* C19: a frequency cell of an agent row holding a number that is not positive,
\* or such a value for avg_rounds, total_pairings or memory_limit, makes the
\* loader raise; the number is never replaced by another one and never handed
\* on in the configuration.
C19_NonPositiveIsFatal ==
    /\ (call.op = "load_agents" /\ ret # NoRet /\ NonPositiveCell(call.frequency)) =>
            ret.result.raised
    /\ (call.op = "load_experiment" /\ ret # NoRet /\ NonPositiveCell(call.value)
            /\ Lower(Strip(call.parameter)) \in {"avg_rounds", "total_pairings", "memory_limit"}) =>
            ret.result.raised

\* what the loader does with such a number: the frequency becomes 1 with a
\* warning, the counts are handed on as read; nothing is raised
C19_AsCoded ==
    /\ (call.op = "load_agents" /\ ret # NoRet /\ NonPositiveCell(call.frequency)) =>
            /\ ~ret.result.raised
            /\ ret.result.warned
            /\ ret.result.agents = <<[frequency |-> 1]>>
    /\ (call.op = "load_experiment" /\ ret # NoRet /\ NonPositiveCell(call.value)
            /\ Lower(Strip(call.parameter)) \in {"avg_rounds", "total_pairings", "memory_limit"}) =>
            /\ ~ret.result.raised
            /\ ret.result.config[Lower(Strip(call.parameter))] = ParseInt(call.value)[1]
            /\ ret.result.config[Lower(Strip(call.parameter))] <= 0

\* a total_pairings of -1 loaded
C19_Witness ==
    /\ call = [op |-> "load_experiment", parameter |-> "total_pairings", value |-> "-1"]
    /\ ret # NoRet
    /\ ret.result.config.total_pairings = 0 - 1

\* the phases of a pairing and the steps from one to the next
RoundPhases == {"round_start", "communicate", "move1", "move2", "payoff"}
GossipPhases == {"gossip1", "receive1", "gossip2", "receive2"}
PhaseOrder ==
    {<<"run", "round_count">>, <<"run", "done">>,
     <<"round_count", "game_select">>,
     <<"game_select", "round_start">>, <<"game_select", "memory1">>,
     <<"round_start", "communicate">>, <<"round_start", "move1">>,
     <<"communicate", "communicate">>, <<"communicate", "move1">>,
     <<"move1", "move2">>, <<"move2", "payoff">>,
     <<"payoff", "round_start">>, <<"payoff", "memory1">>,
     <<"memory1", "memory2">>,
     <<"memory2", "gossip1">>, <<"memory2", "end_pairing">>,
     <<"gossip1", "receive1">>, <<"gossip1", "gossip2">>, <<"receive1", "gossip2">>,
     <<"gossip2", "receive2">>, <<"gossip2", "end_pairing">>, <<"receive2", "end_pairing">>,
     <<"end_pairing", "run">>}

\* in the rounds the context holds the memories the two agents have, the
\* history is short of the rounds to play and no gossip was generated; at the
\* memory updates every round is in the history
C20_State ==
    /\ pc \in RoundPhases \ {"round_start"} =>
            ctx_memory = <<Get(memories[agent1], agent2), Get(memories[agent2], agent1)>>
    /\ pc \in RoundPhases => Len(pairing_history) < num_rounds
    /\ pc \in {"memory1", "memory2"} => Len(pairing_history) = num_rounds
    /\ pc \in {"round_count", "game_select", "memory1", "memory2"} \cup RoundPhases =>
            gossip = None

\* a step goes to a next phase; the history grows by the round at the payoff
\* step only; the memories are untouched until the memory updates, where
\* agent1's memory about agent2 and then agent2's about agent1 is written and
\* nothing else, and the gossip steps leave the memories of the two alone
C20_Step ==
    /\ <<pc, pc'>> \in PhaseOrder
    /\ (pc = "game_select" /\ pc' = "memory1") => num_rounds' = 0
    /\ pc = "payoff" =>
            /\ Len(pairing_history') = Len(pairing_history) + 1
            /\ pc' = "memory1" <=> Len(pairing_history') = num_rounds
    /\ pc \in {"round_count", "game_select"} \cup (RoundPhases \ {"payoff"}) =>
            Len(pairing_history') = Len(pairing_history)
    /\ pc \in {"run", "round_count", "game_select", "end_pairing"} \cup RoundPhases =>
            memories' = memories
    /\ pc = "memory1" =>
            /\ Get(memories'[agent1], agent2) # None
            /\ \A b \in DOMAIN memories[agent1] \ {agent2} :
                    memories'[agent1][b] = memories[agent1][b]
            /\ \A a \in Agents \ {agent1} : memories'[a] = memories[a]
    /\ pc = "memory2" =>
            /\ Get(memories'[agent2], agent1) # None
            /\ \A b \in DOMAIN memories[agent2] \ {agent1} :
                    memories'[agent2][b] = memories[agent2][b]
            /\ \A a \in Agents \ {agent2} : memories'[a] = memories[a]
    /\ pc \in GossipPhases =>
            /\ memories'[agent1] = memories[agent1]
            /\ memories'[agent2] = memories[agent2]

\* C20: a pairing goes through the round count, then per round the game of the
\* round, communication, the two decisions, payoff and history append, then the
\* memory updates, then its close; each of the two agents' memory about the
\* other is written once, after the last round is in the history, so every
\* round's context shows the memory held before the pairing; gossip comes only
\* after both memory updates.
C20_PhaseOrder == []C20_State /\ [][C20_Step]_vars

\* in a second pairing agent1 has just replaced its memory about agent2, and
\* the context of the round played still holds the one from the first pairing
C20_Witness ==
    /\ pc = "memory2"
    /\ stats.total_pairings = 1
    /\ num_rounds = 1
    /\ Len(pairing_history) = 1
    /\ ctx_memory[1] = Some(Prefix(LongText, cfg.memory_limit))
    /\ Get(memories[agent1], agent2) = Some(ShortText)

\* the transcript of a round holds non-empty messages of the two agents, no
\* more than communicate calls were made, and these are at most 2N
C21_State ==
    pc \in RoundPhases \ {"round_start"} =>
        /\ comm_turn <= 2 * cfg.max_communication_rounds
        /\ Len(messages) <= comm_turn
        /\ pc = "communicate" => comm_turn < 2 * cfg.max_communication_rounds
        /\ pc \in {"move1", "move2", "payoff"} => comm_turn = 2 * cfg.max_communication_rounds
        /\ \A i \in 1..Len(messages) :
                /\ messages[i].sender \in {agent1, agent2}
                /\ messages[i].message # ""

\* a round starts with an empty transcript; the communicate calls go to agent1
\* and agent2 in turn, each with the transcript as it stands; a non-empty
\* answer is appended under the speaker's id, an empty one or a failure leaves
\* the transcript as it was and the round goes on
C21_Step ==
    /\ pc = "round_start" =>
            /\ messages' = <<>>
            /\ comm_turn' = 0
            /\ pc' = "communicate" <=> cfg.max_communication_rounds > 0
    /\ pc = "communicate" =>
            /\ last_call'.call_type = "communication"
            /\ last_call'.agent = (IF comm_turn % 2 = 0 THEN agent1 ELSE agent2)
            /\ last_call'.prompt # None
            /\ last_call'.prompt[1].conversation = messages
            /\ comm_turn' = comm_turn + 1
            /\ pc' \in {"communicate", "move1"}
            /\ \/ messages' = messages
               \/ /\ ~last_call'.failed
                  /\ Len(messages') = Len(messages) + 1
                  /\ SubSeq(messages', 1, Len(messages)) = messages
                  /\ messages'[Len(messages')].sender = last_call'.agent
                  /\ messages'[Len(messages')].message # ""
    /\ pc \in {"move1", "move2"} => messages' = messages

C21_WitnessSilent ==
    /\ pc = "move1"
    /\ cfg.max_communication_rounds = 1
    /\ Len(messages) = 1
    /\ messages[1].sender = agent2
    /\ last_call.prompt[1].conversation = <<>>

\* the history is empty before the first round of a pairing, never longer than
\* the rounds to play, and its records are numbered 1, 2, ... and hold the
\* moves of the two agents of this pairing
C22_State ==
    /\ pc \in {"run", "round_count", "game_select", "end_pairing", "done"} \cup GossipPhases =>
            pairing_history = <<>>
    /\ pc \in RoundPhases \cup {"memory1", "memory2"} =>
            /\ Len(pairing_history) <= num_rounds
            /\ \A i \in 1..Len(pairing_history) :
                    /\ pairing_history[i].round = i
                    /\ pairing_history[i].game_type = games_for_rounds[i]
                    /\ DOMAIN pairing_history[i].moves = {agent1, agent2}
    /\ pc \in RoundPhases \ {"round_start"} =>
            \A a \in {agent1, agent2} :
                /\ prepare_context(a, Opponent(a)).history = pairing_history
                /\ prepare_context(a, Opponent(a)).round_number = Len(pairing_history) + 1

\* the history changes only by the append of the round just played; the
\* move prompts count the rounds of the history; the memory-update prompts sum
\* up every round of it; the pairing leaves no history behind
C22_Step ==
    /\ pc \in {"round_count", "game_select", "round_start", "communicate", "move1", "move2",
               "memory1"} => pairing_history' = pairing_history
    /\ pc \in {"move1", "move2"} => last_call'.prompt[1].played = Len(pairing_history)
    /\ pc = "payoff" =>
            /\ Len(pairing_history') = Len(pairing_history) + 1
            /\ SubSeq(pairing_history', 1, Len(pairing_history)) = pairing_history
            /\ pairing_history'[Len(pairing_history')].round = Len(pairing_history) + 1
            /\ pairing_history'[Len(pairing_history')].moves
                    = (agent1 :> move1) @@ (agent2 :> move2)
    /\ pc \in {"memory1", "memory2"} =>
            LET me == IF pc = "memory1" THEN agent1 ELSE agent2
                prompt == last_call'.prompt[1]
            IN  /\ prompt.total_rounds = num_rounds
                /\ Len(prompt.rounds) = num_rounds
                /\ \A i \in 1..num_rounds :
                        /\ prompt.rounds[i].round = i
                        /\ prompt.rounds[i].game_type = pairing_history[i].game_type
                        /\ prompt.rounds[i].you = Some(pairing_history[i].moves[me])
                        /\ prompt.rounds[i].they = Some(pairing_history[i].moves[Opponent(me)])
    /\ pc = "memory2" => pairing_history' = <<>>

\* C22: at the start of round r of a pairing the history given to both agents
\* is exactly the r-1 earlier rounds of this pairing, in order and numbered
\* 1..r-1; the memory-update prompt receives all rounds of the pairing; no round
\* of an earlier pairing appears in a later pairing's history.
C22_HistoryScope == []C22_State /\ [][C22_Step]_vars

\* the second pairing of a run after agent1's memory update: two rounds were
\* played in the run, and the prompt summed up the one round of this pairing
C22_Witness ==
    /\ pc = "memory2"
    /\ stats.total_pairings = 1
    /\ stats.total_rounds = 2
    /\ Len(pairing_history) = 1
    /\ Len(last_call.prompt[1].rounds) = 1
    /\ last_call.prompt[1].rounds[1].round = 1

\* the second round of a pairing about to be decided on a history of one round
C22_WitnessSecondRound ==
    /\ pc = "move1"
    /\ num_rounds = 2
    /\ Len(pairing_history) = 1
    /\ prepare_context(agent1, agent2).round_number = 2

\* C23: for every game type and any two move strings, calculate_payoffs looks
\* the table up only with canonical moves of the game type: a move whose
\* normalized form is canonical is used as it is, any other is remapped to a
\* canonical move; the key is in the table and the result is its entry, never
\* the (0, 0) returned for a missing key.
C23_CanonicalLookup ==
    (call.op = "calculate_payoffs" /\ ret # NoRet) =>
        LET g == call.game_type
            key == <<ValidatedMove(call.move1, g), ValidatedMove(call.move2, g)>>
        IN  /\ key[1] \in ValidMoveSet(g)
            /\ key[2] \in ValidMoveSet(g)
            /\ Strip(Lower(call.move1)) \in ValidMoveSet(g) => key[1] = Strip(Lower(call.move1))
            /\ Strip(Lower(call.move2)) \in ValidMoveSet(g) => key[2] = Strip(Lower(call.move2))
            /\ key \in DOMAIN payoff_matrices(g)
            /\ ret.payoffs = payoff_matrices(g)[key]

\* a move with no keyword in it against a canonical move in capitals and
\* blanks: scored as cooperate against defect
C23_Witness ==
    /\ call = [op |-> "calculate_payoffs", game_type |-> "prisoners_dilemma",
               move1 |-> "zzz", move2 |-> " Defect "]
    /\ ret # NoRet
    /\ ret.payoffs = <<0, 5>>

\* what the receive_gossip step does to the memories, by the length of what
\* the provider returned to the receiver
C24_Step ==
    pc \in {"receive1", "receive2"} =>
        LET g == gossip[1]
            response == last_call'.response
            stored == IF Len(response) > cfg.memory_limit
                      THEN SubSeq(response, 1, cfg.memory_limit) ELSE response
        IN  /\ last_call'.call_type = "gossip_processing"
            /\ last_call'.agent = g.to_agent
            /\ g.from_agent # g.to_agent
            /\ last_call'.failed => response = ""
            /\ Len(response) > 10 =>
                    /\ DOMAIN memories'[g.to_agent] = DOMAIN memories[g.to_agent] \cup {g.about_agent}
                    /\ memories'[g.to_agent][g.about_agent] = stored
                    /\ \A b \in DOMAIN memories[g.to_agent] \ {g.about_agent} :
                            memories'[g.to_agent][b] = memories[g.to_agent][b]
            /\ Len(response) <= 10 => memories'[g.to_agent] = memories[g.to_agent]
            /\ \A a \in Agents \ {g.to_agent} : memories'[a] = memories[a]

\* C24: receive_gossip changes the receiver's memories only when the provider's
\* result is longer than 10 characters, and then only the entry about the
\* gossip's subject, replaced by the result cut to memory_limit; a result of 10
\* characters or fewer, the empty one of a provider failure included, leaves
\* every entry of the receiver as it was; the sender's memories are unchanged
\* in both cases.
C24_GossipFrame == [][C24_Step]_vars

\* the third agent took in agent1's gossip about agent2, cut to the limit, and
\* then got a result of exactly 10 characters on agent2's gossip about agent1:
\* it holds a memory about agent2 only
C24_Witness ==
    /\ pc = "end_pairing"
    /\ last_call.call_type = "gossip_processing"
    /\ last_call.response = TenChars
    /\ cfg.memory_limit = 4
    /\ DOMAIN memories[last_call.agent] = {agent2}
    /\ memories[last_call.agent][agent2] = "play"

\* the number of entries of the results list for job j
Entries(rs, j) == Cardinality({i \in 1..Len(rs) : rs[i].job = j})

\* what the interrupt's handler leaves in the results list
C25_Step ==
    (batch_pc \in {"start", "collect"} /\ batch_pc' = "interrupted") =>
        \A j \in Jobs :
            /\ futures[j] = "finished" => Entries(results', j) = 1
            /\ futures[j] # "finished" => Entries(results', j) = 0

\* after the handler run_batch can return though jobs are still running
C25_NoWait == batch_pc = "interrupted" => ENABLED ReturnInterrupted

\* C25: when an interrupt arrives during parallel run_batch, at whatever point
\* of submission or collection, the results list holds the result of every job
\* that had completed exactly once and no entry for a job that had not, and is
\* returned without waiting for the jobs in flight.
C25_InterruptCollects == []C25_NoWait /\ [][C25_Step]_vars

\* the results list after an interrupt holds each completed job once
C25_OncePerJob == [][C25_Step]_vars

\* what holds of the handler: every completed job is in the list, no other
\* is, the jobs collected before the interrupt are in it twice, and the return
\* waits for the running jobs
C25_AsCoded ==
    /\ batch_pc \in {"interrupted", "returned_interrupted"} =>
            \A j \in Jobs :
                /\ Entries(results, j) \in 0..2
                /\ Entries(results, j) > 0 => job_result[j] # "unknown"
                /\ \A i \in 1..Len(results) :
                        results[i].job = j => results[i].status = job_result[j]
    /\ batch_pc = "returned_interrupted" =>
            \A j \in Jobs : futures[j] \in {"none", "cancelled", "finished"}

\* an interrupt after the first of two jobs was collected: its result is in
\* the list twice
C25_Witness ==
    /\ batch_pc = "interrupted"
    /\ batch = [total |-> 2, workers |-> 2]
    /\ futures = <<"finished", "running">>
    /\ Len(results) = 2
    /\ results[1].job = 1
    /\ results[2].job = 1

\* C26: any two distinct jobs that expand_jobs makes of a batch file accepted
\* by load_batch_config have different output directories.
C26_DistinctOutputDirs ==
    (call.op = "expand_jobs" /\ ret # NoRet /\ ~ret.exited) =>
        \A i \in 1..Len(ret.jobs), j \in 1..Len(ret.jobs) :
            i # j => ret.jobs[i].output_dir # ret.jobs[j].output_dir

\* the same for the batch files whose rows have names that differ after strip
C26_DistinctNames ==
    (call.op = "expand_jobs"
        /\ \A i \in 1..Len(call.rows), j \in 1..Len(call.rows) :
                i # j => Strip(call.rows[i].experiment_name) # Strip(call.rows[j].experiment_name))
        => C26_DistinctOutputDirs

\* a batch file of two rows with one name, accepted: four jobs in two
\* directories
C26_Witness ==
    /\ call.op = "expand_jobs"
    /\ ret # NoRet
    /\ ~ret.exited
    /\ Len(ret.jobs) = 4
    /\ ret.jobs[1].output_dir = "results/exp_a/rep_1"
    /\ ret.jobs[3].output_dir = "results/exp_a/rep_1"
    /\ ret.jobs[2].output_dir = ret.jobs[4].output_dir

RECURSIVE SumValues(_)
\* the sum of the values of a dict of counts
SumValues(d) ==
    IF DOMAIN d = {} THEN 0
    ELSE LET k == CHOOSE x \in DOMAIN d : TRUE
         IN  d[k] + SumValues([x \in DOMAIN d \ {k} |-> d[x]])

RECURSIVE SumGames(_)
\* the games-played counters of the agents 1..n summed
SumGames(n) == IF n = 0 THEN 0 ELSE agent_stats[n].total_games + SumGames(n - 1)

\* C27: after any number of completed rounds, cooperation_count +
\* defection_count = coop_ewan_count + defection_ewan_count = 2 x total_rounds,
\* the entries of the per-game move-pair table sum to total_rounds, every
\* agent's per-move counts sum to its games-played counter, and these counters
\* sum to 2 x total_rounds over the agents.
C27_CounterSums ==
    /\ stats.cooperation_count + stats.defection_count = 2 * stats.total_rounds
    /\ stats.coop_ewan_count + stats.defection_ewan_count = 2 * stats.total_rounds
    /\ SumValues(stats.moves_by_game) = stats.total_rounds
    /\ \A a \in Agents : SumValues(agent_stats[a].strategies_used) = agent_stats[a].total_games
    /\ pc \notin {"move2", "payoff"} => SumGames(cfg.num_agents) = 2 * stats.total_rounds

\* two rounds completed, of different outcomes and with a competitive move
C27_Witness ==
    /\ pc = "memory1"
    /\ stats.total_rounds = 2
    /\ Cardinality(DOMAIN stats.moves_by_game) = 2
    /\ stats.defection_count > 0
    /\ stats.coop_ewan_count # stats.cooperation_count

\* a step that calls the provider adds one to the API-call counter of the
\* calling agent, failed or not, and a step changes no other API-call counter
C28_Step ==
    \A a \in Agents :
        agent_stats'[a].api_calls =
            agent_stats[a].api_calls + (IF last_call' # NoCall /\ last_call'.agent = a THEN 1 ELSE 0)

\* the calls of a run with gossip disabled
C28_State ==
    (pc = "done" /\ ~cfg.allow_gossip) =>
        result[1].total_api_calls =
            stats.total_rounds * (2 * cfg.max_communication_rounds + 2) + 2 * stats.total_pairings

\* C28: in a run with gossip disabled total_api_calls is the sum over the
\* pairings of rounds x (2 x max_communication_rounds + 2) + 2: every
\* communicate, make_move and update_memory_after_pairing call adds exactly one
\* to the calling agent's counter, in dry-run mode and on provider failure
\* alike, and the total is the sum of the agents' counters.
C28_ApiCallTotal == []C28_State /\ [][C28_Step]_vars

\* a live run of one pairing of one round with one turn of communication: six
\* calls
C28_Witness ==
    /\ pc = "done"
    /\ ~cfg.allow_gossip
    /\ ~cfg.dry_run
    /\ cfg.max_communication_rounds = 1
    /\ stats.total_pairings = 1
    /\ stats.total_rounds = 1
    /\ result[1].total_api_calls = 6

\* a failed communicate call counted
C28_WitnessFailure ==
    /\ pc = "communicate"
    /\ last_call.call_type = "communication"
    /\ last_call.failed
    /\ agent_stats[last_call.agent].api_calls = 1

\* after the memory updates each of the two agents has an entry about the
\* other; an agent that has other agents to gossip to can ask the provider
C29_State ==
    /\ pc \in {"memory2"} \cup GossipPhases \cup {"end_pairing"} =>
            agent2 \in DOMAIN memories[agent1]
    /\ pc \in GossipPhases \cup {"end_pairing"} => agent1 \in DOMAIN memories[agent2]
    /\ (pc = "gossip1" /\ other_agents # {}) =>
            ENABLED (GenerateGossip(1) /\ last_call'.call_type = "gossip_generation"
                        /\ last_call'.agent = agent1)
    /\ (pc = "gossip2" /\ other_agents # {}) =>
            ENABLED (GenerateGossip(2) /\ last_call'.call_type = "gossip_generation"
                        /\ last_call'.agent = agent2)

\* a failed memory update stores the empty text over whatever was held
C29_Step ==
    /\ (pc = "memory1" /\ last_call'.failed) => memories'[agent1][agent2] = ""
    /\ (pc = "memory2" /\ last_call'.failed) => memories'[agent2][agent1] = ""

\* C29: after a pairing each of its two agents holds a memory entry about the
\* other, also when the provider failed in the memory update (the entry is then
\* the empty text, over any earlier memory); so generate_gossip about the
\* former opponent never returns for want of a memory and asks the provider.
C29_MemoryBeforeGossip == []C29_State /\ [][C29_Step]_vars

\* agent1's memory update failed, and its gossip about agent2 was generated by
\* the provider all the same
C29_Witness ==
    /\ pc = "receive1"
    /\ memories[agent1][agent2] = ""
    /\ last_call.call_type = "gossip_generation"
    /\ last_call.agent = agent1
    /\ gossip # None

\* in a second pairing the memory of the first is overwritten by the empty text
C29_WitnessOverwrite ==
    /\ pc = "memory2"
    /\ stats.total_pairings = 1
    /\ ctx_memory[1] = Some(ShortText)
    /\ last_call.failed
    /\ memories[agent1][agent2] = ""

\* C30: in dry-run mode, whatever the game-type weights and the scenario of the
\* round, every recorded move is the cooperative canonical move of the round's
\* game type, so the two moves of a round are equal, and cooperation_rate and
\* coop_ewan are 1 whenever a round was played.
C30_DryRunCooperates ==
    cfg.dry_run =>
        /\ pc \in {"move2", "payoff"} => move1 = CooperativeMove(scenario.game_type)
        /\ pc = "payoff" => move2 = CooperativeMove(scenario.game_type)
        /\ \A i \in 1..Len(pairing_history) :
                \A a \in DOMAIN pairing_history[i].moves :
                    pairing_history[i].moves[a] = CooperativeMove(pairing_history[i].game_type)
        /\ \A k \in DOMAIN stats.moves_by_game :
                k[2] = CooperativeMove(k[1]) \o "-" \o CooperativeMove(k[1])
        /\ stats.total_rounds >= 1 =>
                /\ stats.cooperation_count = 2 * stats.total_rounds
                /\ stats.coop_ewan_count = 2 * stats.total_rounds
                /\ RunResult(stats, agent_stats, cfg.num_agents).cooperation_rate
                        = <<2 * stats.total_rounds, 2 * stats.total_rounds>>
                /\ RunResult(stats, agent_stats, cfg.num_agents).coop_ewan
                        = <<2 * stats.total_rounds, 2 * stats.total_rounds>>
        /\ (pc = "done" /\ stats.total_rounds >= 1) =>
                /\ result[1].cooperation_rate[1] = result[1].cooperation_rate[2]
                /\ result[1].coop_ewan[1] = result[1].coop_ewan[2]

\* a dry run ended after a round of hawk_dove, both moves dove
C30_Witness ==
    /\ cfg.dry_run
    /\ pc = "done"
    /\ stats.total_rounds = 1
    /\ DOMAIN stats.moves_by_game = {<<"hawk_dove", "dove-dove">>}
    /\ result[1].coop_ewan = <<2, 2>>

=============================================================================
